---- MODULE Spec2Model ----
(***************************************************************************)
(* Verification model of NVMeSpecSplitter: the section merger, the          *)
(* bookmark-to-section builder and the extraction of core/pdf_reader.py,   *)
(* the converters of core/md_converter.py and the conversion run of        *)
(* gui/app.py.                                                             *)
(*                                                                         *)
(* The specifications of the module share its variables; the components a  *)
(* specification leaves out stay idle:                                     *)
(*   SpecMerge    merge_sections_by_level applied to a flat section list   *)
(*   SpecReader   a PDFReader: open, close, get_sections                   *)
(*   SpecExtract  a PDFReader with page_count, extract_section_text and    *)
(*                extract_section_tables on documents with page layouts    *)
(*   SpecText     MarkdownConverter.text_to_markdown, applied once and     *)
(*                then again to its own result                             *)
(*   SpecTable    _clean_table and table_to_markdown                       *)
(*   SpecName     sanitize_filename                                        *)
(*   SpecRender   convert_merged_section                                   *)
(*   SpecApp      PDFSplitterApp: the user's events, the conversion        *)
(*                thread, the callbacks it posts, the output folder        *)
(***************************************************************************)
EXTENDS Integers, Sequences, FiniteSets, TLC

VARIABLES
    \* merge_sections_by_level: its two arguments and its return value
    selected_sections, split_level, merged_sections, merge_pc,
    \* PDFReader: the file behind pdf_path, self.doc, the last get_sections()
    pdf_file, doc, sections, reader_pc,
    \* text_to_markdown: its arguments, its result, the result of re-applying
    text, section_title, md_text, md_again, text_pc,
    \* _clean_table and table_to_markdown: the matrix given, the two results
    table, cleaned, md_table, table_pc,
    \* sanitize_filename: its argument and its result
    name, filename, name_pc,
    \* convert_merged_section and convert_section: the group, the content
    \* lookup, the document of the group, the document of its parent alone
    merged, section_contents, rendered, converted, render_pc,
    \* the last read of the PDFReader: the call, whether a document was open, the result
    extracted,
    \* PDFSplitterApp: its fields and widgets, the conversion threads, the callbacks
    \* posted with root.after, the output folder, the runs and user events so
    \* far, the outcomes shown to the user
    pdf_path, gui_sections, section_vars, split_level_var, output_entry, convert_btn, status_var, progress, workers, after_queue, files, runs, user_events, outcomes

mergeVars   == <<selected_sections, split_level, merged_sections, merge_pc>>
readerVars  == <<pdf_file, doc, sections, reader_pc>>
textVars    == <<text, section_title, md_text, md_again, text_pc>>
tableVars   == <<table, cleaned, md_table, table_pc>>
nameVars    == <<name, filename, name_pc>>
renderVars  == <<merged, section_contents, rendered, converted, render_pc>>
extractVars == <<extracted>>
appVars     == <<pdf_path, gui_sections, section_vars, split_level_var, output_entry, convert_btn, status_var, progress, workers, after_queue, files, runs, user_events, outcomes>>
vars        == <<mergeVars, readerVars, textVars, tableVars, nameVars, renderVars, extractVars, appVars>>

\* the variables a component leaves alone
notMerge    == <<readerVars, textVars, tableVars, nameVars, renderVars, extractVars, appVars>>
notReader   == <<mergeVars, textVars, tableVars, nameVars, renderVars, extractVars, appVars>>
notText     == <<mergeVars, readerVars, tableVars, nameVars, renderVars, extractVars, appVars>>
notTable    == <<mergeVars, readerVars, textVars, nameVars, renderVars, extractVars, appVars>>
notName     == <<mergeVars, readerVars, textVars, tableVars, renderVars, extractVars, appVars>>
notRender   == <<mergeVars, readerVars, textVars, tableVars, nameVars, extractVars, appVars>>
notExtract  == <<mergeVars, readerVars, textVars, tableVars, nameVars, renderVars, appVars>>
notApp      == <<mergeVars, readerVars, textVars, tableVars, nameVars, renderVars, extractVars>>

\* Python's Optional values (split_level, self.doc, section_title): None is
\* the empty sequence and a present value v is <<v>>
None == <<>>
Some(v) == <<v>>
Val(o) == o[1]

----------------------------------------------------------------------------
(* Bounds of the model                                                     *)

MaxSections == 4      \* longest flat section list given to the merger
MaxLevel    == 3      \* deepest bookmark level in a merger input
MaxPages    == 2      \* most pages of a PDF file
MaxToc      == 3      \* most bookmarks of a PDF outline
MaxTocLevel == 2      \* deepest bookmark level of a PDF outline
MaxTextLen  == 4      \* longest text given to text_to_markdown
MaxTitleLen == 2      \* longest section title given to text_to_markdown
MaxRows     == 2      \* most rows of a matrix given to _clean_table
MaxCols     == 2      \* most cells of a row of such a matrix
MaxNameTokens == 3    \* most pieces of a title given to sanitize_filename
MaxChildren == 2      \* most children of a group given to convert_merged_section
MaxBookmarks == 2     \* most bookmarks of a document read for extraction
MaxDocPages == 3      \* most pages of a document read for extraction
MaxUserEvents == 4    \* most clicks of the user on the window in a behaviour

----------------------------------------------------------------------------
(* Small helpers                                                           *)


\* the elements of a sequence
Range(seq) == {seq[k] : k \in 1..Len(seq)}

RECURSIVE SeqsUpTo(_, _)
\* all sequences over S of length 0..n
SeqsUpTo(S, n) ==
    IF n = 0 THEN {<<>>}
    ELSE LET shorter == SeqsUpTo(S, n - 1)
         IN  shorter \cup {Append(s, x) : s \in {t \in shorter : Len(t) = n - 1}, x \in S}

RECURSIVE Concat(_)
\* concatenation of a sequence of sequences
Concat(ss) == IF ss = <<>> THEN <<>> ELSE Head(ss) \o Concat(Tail(ss))

----------------------------------------------------------------------------
(* core/pdf_reader.py: merge_sections_by_level                             *)

\* a Section as the merger sees it; title numbers the input position
MergeInputs ==
    { [i \in 1..Len(lv) |-> [title |-> i, level |-> lv[i]]] :
        lv \in SeqsUpTo(1..MaxLevel, MaxSections) }

\* None ("all levels") or an integer level
SplitLevels == {None} \cup {Some(n) : n \in 1..(MaxLevel + 1)}

\* a comparison that leaves out the split level itself
OpensGroupStrict(section, level) == section.level < level
\* line 65: a section of level <= split_level opens a group
OpensGroup(section, level) == section.level <= level

\* an inner loop with the first break only
StopsAbsorbingNoSplit(next_section, section, level) ==
    next_section.level <= section.level
\* lines 75-81: the two breaks of the inner loop
StopsAbsorbing(next_section, section, level) ==
    \/ next_section.level <= section.level
    \/ next_section.level <= level

\* an inner loop that takes the first following section only
ChildrenFirstOnly(secs, j, section, level) ==
    IF j > Len(secs) THEN <<>>
    ELSE IF section.level >= secs[j].level \/ level >= secs[j].level THEN <<>>
    ELSE <<secs[j]>>

RECURSIVE Children(_, _, _, _)
\* lines 70-86: the inner while loop from index j (1-based here)
Children(secs, j, section, level) ==
    IF j > Len(secs) THEN <<>>
    ELSE IF StopsAbsorbing(secs[j], section, level) THEN <<>>
    ELSE <<secs[j]>> \o Children(secs, j + 1, section, level)

RECURSIVE MergeFrom(_, _, _)
\* lines 61-90: the outer while loop from index i (1-based here)
MergeFrom(secs, i, level) ==
    IF i > Len(secs) THEN <<>>
    ELSE IF OpensGroup(secs[i], level)
         THEN <<[parent |-> secs[i], children |-> Children(secs, i + 1, secs[i], level)]>>
              \o MergeFrom(secs, i + 1, level)
         ELSE MergeFrom(secs, i + 1, level)

\* lines 40-92
merge_sections_by_level(secs, level) ==
    IF secs = <<>> THEN <<>>
    ELSE IF level = None
         THEN [k \in 1..Len(secs) |-> [parent |-> secs[k], children |-> <<>>]]
         ELSE MergeFrom(secs, 1, Val(level))

MergeInit ==
    /\ selected_sections \in MergeInputs
    /\ split_level \in SplitLevels
    /\ merged_sections = <<>>
    /\ merge_pc = "idle"

\* one call of merge_sections_by_level(selected_sections, split_level)
Merge ==
    /\ merge_pc = "idle"
    /\ merged_sections' = merge_sections_by_level(selected_sections, split_level)
    /\ merge_pc' = "done"
    /\ UNCHANGED <<selected_sections, split_level, notMerge>>

MergeIdle ==
    /\ selected_sections = <<>>
    /\ split_level = None
    /\ merged_sections = <<>>
    /\ merge_pc = "off"

----------------------------------------------------------------------------
(* Strings are sequences of one-character strings                          *)

SP == " "
NL == "\n"
\* the characters of the model: a letter, a digit, a dot, the blanks
Chars  == {"a", "1", ".", SP, NL}
Spaces == {SP, NL}
Digits == {"1"}
IsSpace(c) == c \in Spaces
IsDigit(c) == c \in Digits

RECURSIVE LStrip(_)
LStrip(s) == IF s # <<>> /\ IsSpace(Head(s)) THEN LStrip(Tail(s)) ELSE s

RECURSIVE RStrip(_)
RStrip(s) ==
    IF s # <<>> /\ IsSpace(s[Len(s)]) THEN RStrip(SubSeq(s, 1, Len(s) - 1)) ELSE s

\* str.strip()
Strip(s) == RStrip(LStrip(s))

----------------------------------------------------------------------------
(* core/pdf_reader.py: PDFReader                                           *)

\* float('inf'), above every y coordinate of the model
Inf == 1000000

\* y coordinates that a bookmark destination can carry
DestYs == {400}

\* bookmark titles as the outline stores them, blanks included
TocTitles == {<<SP, "a">>}

\* one entry of doc.get_toc(simple=False): [level, title, page (1-based), dest]
TocItems(page_count) ==
    [level : 1..MaxTocLevel, title : TocTitles, page : 1..page_count,
     dest : {None} \cup {Some(y) : y \in DestYs}]

\* what fitz.open(pdf_path) can return: the page count and the outline
PdfFiles ==
    UNION { [page_count : {n}, toc : SeqsUpTo(TocItems(n), MaxToc)] : n \in 0..MaxPages }

\* lines 119-122
page_count(d) == IF d # None THEN Val(d).page_count ELSE 0

\* lines 139-150: the y coordinate of a bookmark, 0.0 without destination
y_pos(item) == IF item.dest # None THEN Val(item.dest) ELSE 0

\* lines 124-159
get_toc_with_position(d) ==
    IF d = None THEN <<>>
    ELSE LET toc == Val(d).toc IN
         [k \in 1..Len(toc) |->
            [level |-> toc[k].level, title |-> toc[k].title,
             page |-> toc[k].page - 1, y |-> y_pos(toc[k])]]

\* the end a page-based splitter would use: the page before the next bookmark
EndPositionPageBased(toc, i, pages) ==
    IF i + 1 <= Len(toc)
    THEN [end_page |-> toc[i + 1].page - 1, end_y |-> Inf]
    ELSE [end_page |-> pages - 1, end_y |-> Inf]

RECURSIVE NextSibling(_, _, _)
\* first bookmark from j on that is not deeper than level, 0 when none
NextSibling(toc, j, level) ==
    IF j > Len(toc) THEN 0
    ELSE IF toc[j].level <= level THEN j
    ELSE NextSibling(toc, j + 1, level)

\* the end a sibling-based splitter would use: the next bookmark that is not
\* deeper than bookmark i
EndPositionSibling(toc, i, pages) ==
    LET n == NextSibling(toc, i + 1, toc[i].level) IN
    IF n # 0
    THEN [end_page |-> toc[n].page, end_y |-> toc[n].y]
    ELSE [end_page |-> pages - 1, end_y |-> Inf]

\* lines 186-202: where section i ends (i is 1-based here)
EndPosition(toc, i, pages) ==
    IF i + 1 <= Len(toc)
    THEN LET next_item == toc[i + 1] IN
         IF next_item.page = toc[i].page
         THEN [end_page |-> toc[i].page, end_y |-> next_item.y]
         ELSE [end_page |-> next_item.page, end_y |-> next_item.y]
    ELSE [end_page |-> pages - 1, end_y |-> Inf]

\* lines 170-177: the section of a document without bookmarks
WholeDocumentTitle == <<"a", SP, "a">>
WholeDocument(pages) ==
    [title |-> WholeDocumentTitle, level |-> 1, start_page |-> 0,
     end_page |-> pages - 1, start_y |-> 0, end_y |-> Inf]

\* a get_sections without the test of self.doc
get_sections_unguarded(d) ==
    LET toc == get_toc_with_position(d) IN
    IF toc = <<>> THEN <<WholeDocument(page_count(d))>>
    ELSE [i \in 1..Len(toc) |->
            LET e == EndPosition(toc, i, page_count(d)) IN
            [title |-> Strip(toc[i].title), level |-> toc[i].level,
             start_page |-> toc[i].page, end_page |-> e.end_page,
             start_y |-> toc[i].y, end_y |-> e.end_y]]
\* lines 161-213
get_sections(d) ==
    IF d = None THEN <<>>
    ELSE LET toc == get_toc_with_position(d) IN
         IF toc = <<>> THEN <<WholeDocument(page_count(d))>>
         ELSE [i \in 1..Len(toc) |->
                 LET e == EndPosition(toc, i, page_count(d)) IN
                 [title |-> Strip(toc[i].title), level |-> toc[i].level,
                  start_page |-> toc[i].page, end_page |-> e.end_page,
                  start_y |-> toc[i].y, end_y |-> e.end_y]]

\* PDFReader(pdf_path): no document yet
ReaderInit ==
    /\ pdf_file \in PdfFiles
    /\ doc = None
    /\ sections = <<>>
    /\ reader_pc = "idle"

\* lines 102-104
Open ==
    /\ doc' = Some(pdf_file)
    /\ reader_pc' = "idle"
    /\ UNCHANGED <<pdf_file, sections, notReader>>

\* lines 106-110
Close ==
    /\ doc' = IF doc # None THEN None ELSE doc
    /\ reader_pc' = "idle"
    /\ UNCHANGED <<pdf_file, sections, notReader>>

\* a call of get_sections(); reader_pc = "got" while sections is its result
\* for the present self.doc
GetSections ==
    /\ sections' = get_sections(doc)
    /\ reader_pc' = "got"
    /\ UNCHANGED <<pdf_file, doc, notReader>>

ReaderIdle ==
    /\ pdf_file = None
    /\ doc = None
    /\ sections = <<>>
    /\ reader_pc = "off"

----------------------------------------------------------------------------
(* core/md_converter.py: MarkdownConverter.text_to_markdown                *)

Max(S) == CHOOSE x \in S : \A y \in S : y <= x

RECURSIVE SkipWhile(_, _, _)
\* first index from p on whose character is not in class, Len(t) + 1 when none
SkipWhile(t, p, class) ==
    IF p <= Len(t) /\ t[p] \in class THEN SkipWhile(t, p + 1, class) ELSE p

\* '^' without re.MULTILINE: only the start of the text
AtTextStart(t, p) == p = 1
\* '^' under re.MULTILINE: the start of the text or just after a newline
AtLineStart(t, p) == p = 1 \/ t[p - 1] = NL

\* '$' under re.MULTILINE: the end of the text or just before a newline
AtLineEnd(t, p) == p = Len(t) + 1 \/ t[p] = NL

\* line 35: where a match of ^\s*\d+\s*$ that starts at p ends (the index
\* after its last character), 0 when there is none.  Both \s* are greedy and
\* \s, \d are disjoint, so the digits start after the whole blank run and the
\* match ends at the last line end within the blank run after the digits.
PageNumberMatchEnd(t, p) ==
    IF ~AtLineStart(t, p) THEN 0
    ELSE LET q == SkipWhile(t, p, Spaces)
             r == SkipWhile(t, q, Digits)
             s == SkipWhile(t, r, Spaces)
             ends == {e \in r..s : AtLineEnd(t, e)}
         IN  IF r = q \/ ends = {} THEN 0 ELSE Max(ends)

RECURSIVE SubPageNumbers(_, _, _)
\* re.sub scanning from p; left is the number of replacements still allowed
SubPageNumbers(t, p, left) ==
    IF p > Len(t) THEN <<>>
    ELSE LET e == IF left > 0 THEN PageNumberMatchEnd(t, p) ELSE 0 IN
         IF e # 0 THEN SubPageNumbers(t, e, left - 1)
         ELSE <<t[p]>> \o SubPageNumbers(t, p + 1, left)

\* re.sub(..., count=1): only the first page number
RemoveFirstPageNumber(t) == SubPageNumbers(t, 1, 1)
\* line 35: re.sub(r'^\s*\d+\s*$', '', text, flags=re.MULTILINE)
RemovePageNumbers(t) == SubPageNumbers(t, 1, Len(t))

RECURSIVE Split(_)
\* str.split('\n')
Split(t) ==
    LET e == SkipWhile(t, 1, Chars \ {NL}) IN
    IF e > Len(t) THEN <<t>>
    ELSE <<SubSeq(t, 1, e - 1)>> \o Split(SubSeq(t, e + 1, Len(t)))

RECURSIVE Join(_)
\* '\n'.join(lines)
Join(lines) ==
    IF Len(lines) = 0 THEN <<>>
    ELSE IF Len(lines) = 1 THEN lines[1]
    ELSE lines[1] \o <<NL>> \o Join(Tail(lines))

\* line 45: re.sub(r'^[\d.]+\s*', '', section_title).strip()
title_without_number(title) ==
    LET r == SkipWhile(title, 1, Digits \cup {"."})
        s == SkipWhile(title, r, Spaces)
    IN  Strip(IF r = 1 THEN title ELSE SubSeq(title, s, Len(title)))

\* a comparison with the full title alone
IsFullTitle(first_line, title) == first_line = title
\* line 46
IsDuplicateTitle(first_line, title) ==
    first_line = title_without_number(title) \/ first_line = title

\* every line that equals first_line once stripped is blanked
BlankAll(lines, first_line) ==
    [i \in 1..Len(lines) |-> IF Strip(lines[i]) = first_line THEN <<>> ELSE lines[i]]
\* lines 48-51: blank the first line that equals first_line once stripped
BlankFirst(lines, first_line) ==
    LET hits == {i \in 1..Len(lines) : Strip(lines[i]) = first_line}
        first == CHOOSE i \in hits : \A k \in hits : i <= k
    IN  IF hits = {} THEN lines ELSE [lines EXCEPT ![first] = <<>>]

\* lines 38-52
RemoveDuplicateTitle(t, title) ==
    IF title = None \/ Val(title) = <<>> THEN t
    ELSE LET lines == Split(t)
             non_empty_lines == SelectSeq(lines, LAMBDA l : Strip(l) # <<>>)
         IN  IF non_empty_lines = <<>> THEN t
             ELSE LET first_line == Strip(non_empty_lines[1]) IN
                  IF IsDuplicateTitle(first_line, Val(title))
                  THEN Join(BlankFirst(lines, first_line))
                  ELSE t

RECURSIVE CollapseNewlines(_)
\* line 55: re.sub(r'\n{3,}', '\n\n', text)
CollapseNewlines(t) ==
    IF t = <<>> THEN <<>>
    ELSE LET e == SkipWhile(t, 1, {NL}) IN
         IF e - 1 >= 3 THEN <<NL, NL>> \o CollapseNewlines(SubSeq(t, e, Len(t)))
         ELSE IF e - 1 >= 1 THEN SubSeq(t, 1, e - 1) \o CollapseNewlines(SubSeq(t, e, Len(t)))
         ELSE <<t[1]>> \o CollapseNewlines(Tail(t))

\* lines 23-59
text_to_markdown(t, title) ==
    Strip(CollapseNewlines(RemoveDuplicateTitle(RemovePageNumbers(t), title)))

\* texts as a page delivers them: a page number, the title, the body
LongTexts ==
    { <<"1", NL, "a", NL, "a">>,
      <<SP, "1", SP, NL, "a", SP, NL, NL, NL, NL, "a", "1">> }
Texts == SeqsUpTo({"a", "1", SP, NL}, MaxTextLen) \cup LongTexts
Titles == {None} \cup {Some(t) : t \in SeqsUpTo({"a", "1", ".", SP}, MaxTitleLen) \ {<<>>}}

TextInit ==
    /\ text \in Texts
    /\ section_title \in Titles
    /\ md_text = <<>>
    /\ md_again = <<>>
    /\ text_pc = "idle"

\* md_text = text_to_markdown(text, section_title)
Convert ==
    /\ text_pc = "idle"
    /\ md_text' = text_to_markdown(text, section_title)
    /\ text_pc' = "once"
    /\ UNCHANGED <<text, section_title, md_again, notText>>

\* the same call on its own result, with the same title
ConvertAgain ==
    /\ text_pc = "once"
    /\ md_again' = text_to_markdown(md_text, section_title)
    /\ text_pc' = "twice"
    /\ UNCHANGED <<text, section_title, md_text, notText>>

\* MergeIdle, ReaderIdle, TextIdle: the values of a component's variables in
\* the specifications that leave the component out

TextIdle ==
    /\ text = <<>>
    /\ section_title = None
    /\ md_text = <<>>
    /\ md_again = <<>>
    /\ text_pc = "off"

----------------------------------------------------------------------------
(* core/md_converter.py: _clean_cell, _clean_table, table_to_markdown      *)

CR == "\r"
BS == "\\"
PIPE == "|"
\* what str.split() with no argument splits on
Blanks == {SP, NL, CR}

RECURSIVE JoinWith(_, _)
\* sep.join(strs)
JoinWith(strs, sep) ==
    IF strs = <<>> THEN <<>>
    ELSE IF Len(strs) = 1 THEN strs[1]
    ELSE strs[1] \o sep \o JoinWith(Tail(strs), sep)

RECURSIVE Words(_)
\* str.split(): the maximal runs of non-blank characters
Words(s) ==
    LET p == SkipWhile(s, 1, Blanks)
        q == SkipWhile(s, p, {c \in {s[i] : i \in 1..Len(s)} : c \notin Blanks})
    IN  IF p > Len(s) THEN <<>>
        ELSE <<SubSeq(s, p, q - 1)>> \o Words(SubSeq(s, q, Len(s)))

RECURSIVE EscapePipes(_)
\* line 71: str.replace('|', '\\|')
EscapePipes(s) ==
    IF s = <<>> THEN <<>>
    ELSE (IF Head(s) = PIPE THEN <<BS, PIPE>> ELSE <<Head(s)>>) \o EscapePipes(Tail(s))

\* line 67: str.replace('\n', ' ').replace('\r', ' ')
ReplaceBreaks(s) == [i \in 1..Len(s) |-> IF s[i] \in {NL, CR} THEN SP ELSE s[i]]

\* lines 62-72; a cell that is None or "" is the empty sequence
clean_cell(cell) ==
    IF cell = <<>> THEN <<>>
    ELSE Strip(EscapePipes(JoinWith(Words(ReplaceBreaks(cell)), <<SP>>)))

\* line 86: the cell of a row at a column, "" when the row is too short or
\* the cell is falsy
CellAt(row, col_idx) ==
    IF col_idx <= Len(row) /\ row[col_idx] # <<>>
    THEN clean_cell(row[col_idx]) ELSE <<>>

\* a column search that drops no column
EmptyColsNone(tbl) == {}
\* lines 80-90: the columns of row 0 that are empty in every row
EmptyCols(tbl) ==
    LET num_cols == Len(tbl[1]) IN
    {c \in 1..num_cols : \A r \in 1..Len(tbl) : CellAt(tbl[r], c) = <<>>}

\* lines 95-99: the cleaned cells of a row at the indices outside empty_cols
CleanedRow(row, empty_cols) ==
    LET kept == SelectSeq([i \in 1..Len(row) |-> i], LAMBDA i : i \notin empty_cols)
    IN  [k \in 1..Len(kept) |-> clean_cell(row[kept[k]])]

\* a row filter that keeps every row
KeepsRowAlways(cleaned_row) == TRUE
\* line 100: a row is kept when it has a cell and some cell is non-empty
KeepsRow(cleaned_row) ==
    cleaned_row # <<>> /\ \E k \in 1..Len(cleaned_row) : cleaned_row[k] # <<>>

\* lines 75-103
clean_table(tbl) ==
    IF tbl = <<>> \/ tbl[1] = <<>> THEN <<>>
    ELSE LET empty_cols == EmptyCols(tbl)
             rows == [r \in 1..Len(tbl) |-> CleanedRow(tbl[r], empty_cols)]
         IN  SelectSeq(rows, KeepsRow)

\* "| " + " | ".join(cells) + " |"
RowLine(cells) == <<PIPE, SP>> \o JoinWith(cells, <<SP, PIPE, SP>>) \o <<SP, PIPE>>

\* lines 128-131: a data row padded with "" and cut to the header's width
FitRow(row, width) ==
    [k \in 1..width |-> IF k <= Len(row) THEN row[k] ELSE <<>>]

\* lines 106-133
table_to_markdown(tbl) ==
    IF tbl = <<>> \/ tbl[1] = <<>> THEN <<>>
    ELSE LET t == clean_table(tbl) IN
         IF t = <<>> \/ t[1] = <<>> THEN <<>>
         ELSE LET header == t[1]
                  dashes == [k \in 1..Len(header) |-> <<"-", "-", "-">>]
                  data   == [r \in 1..(Len(t) - 1) |-> RowLine(FitRow(t[r + 1], Len(header)))]
              IN  JoinWith(<<RowLine(header), RowLine(dashes)>> \o data, <<NL>>)

\* the cells of the model: None or "", a blank cell, a cell with a line
\* break, a run of blanks and a pipe
Cells == {<<>>, <<SP>>, <<"a", NL, SP, PIPE>>}

\* the matrices given: rows of 0..MaxCols cells each, jagged ones included
Tables == SeqsUpTo(SeqsUpTo(Cells, MaxCols), MaxRows)

TableInit ==
    /\ table \in Tables
    /\ cleaned = <<>>
    /\ md_table = <<>>
    /\ table_pc = "ready"

\* a call of _clean_table(table)
CleanTable ==
    /\ table_pc = "ready"
    /\ cleaned' = clean_table(table)
    /\ table_pc' = "cleaned"
    /\ UNCHANGED <<table, md_table, notTable>>

\* a call of table_to_markdown(table)
TableToMarkdown ==
    /\ table_pc = "cleaned"
    /\ md_table' = table_to_markdown(table)
    /\ table_pc' = "done"
    /\ UNCHANGED <<table, cleaned, notTable>>

\* the table functions are not part of the specification checked
TableIdle ==
    /\ table = <<>>
    /\ cleaned = <<>>
    /\ md_table = <<>>
    /\ table_pc = "idle"

----------------------------------------------------------------------------
(* core/md_converter.py: MarkdownConverter.sanitize_filename               *)

\* line 21: the slice [:50]
MaxFilenameLen == 50

\* line 21: "untitled"
Untitled == <<"u", "n", "t", "i", "t", "l", "e", "d">>

\* line 14: the character class [<>:"/\\|?*]
Illegal == {"<", ">", ":", "\"", "/", BS, PIPE, "?", "*"}

\* line 14: re.sub(r'[<>:"/\\|?*]', '', name)
RemoveIllegal(s) == SelectSeq(s, LAMBDA c : c \notin Illegal)

\* line 16: str.replace(' ', '_')
SpacesToUnderscores(s) == [i \in 1..Len(s) |-> IF s[i] = SP THEN "_" ELSE s[i]]

\* line 18: re.sub(r'_+', '_', sanitized): of each run of underscores the
\* first one stays
CollapseUnderscores(s) ==
    LET kept == SelectSeq([i \in 1..Len(s) |-> i],
                          LAMBDA i : ~(s[i] = "_" /\ i > 1 /\ s[i - 1] = "_"))
    IN  [k \in 1..Len(kept) |-> s[kept[k]]]

\* line 20: str.strip('_'): from the first to the last character that is
\* no underscore
StripUnderscores(s) ==
    LET others == {i \in 1..Len(s) : s[i] # "_"}
    IN  IF others = {} THEN <<>>
        ELSE SubSeq(s, CHOOSE i \in others : \A k \in others : i <= k, Max(others))

\* a slice that cuts nothing
TruncateNone(s) == s
\* line 21: sanitized[:50]
Truncate(s) == SubSeq(s, 1, IF Len(s) < MaxFilenameLen THEN Len(s) ELSE MaxFilenameLen)

\* lines 11-21
sanitize_filename(n) ==
    LET sanitized ==
            StripUnderscores(CollapseUnderscores(SpacesToUnderscores(RemoveIllegal(n))))
    IN  IF sanitized # <<>> THEN Truncate(sanitized) ELSE Untitled

\* a run of letters one short of the longest file name
LongRun == [i \in 1..(MaxFilenameLen - 1) |-> "a"]

\* the pieces titles are made of: a letter, an underscore, a space, an
\* illegal character, the long run
NameTokens == {<<"a">>, <<"_">>, <<SP>>, <<"<">>, LongRun}

\* the titles given: up to MaxNameTokens pieces in a row
Names == {Concat(ts) : ts \in SeqsUpTo(NameTokens, MaxNameTokens)}

NameInit ==
    /\ name \in Names
    /\ filename = <<>>
    /\ name_pc = "ready"

\* a call of sanitize_filename(name)
Sanitize ==
    /\ name_pc = "ready"
    /\ filename' = sanitize_filename(name)
    /\ name_pc' = "done"
    /\ UNCHANGED <<name, notName>>

\* sanitize_filename is not part of the specification checked
NameIdle ==
    /\ name = <<>>
    /\ filename = <<>>
    /\ name_pc = "idle"

----------------------------------------------------------------------------
(* core/md_converter.py: MarkdownConverter.convert_merged_section          *)

\* lines 210, 230: the most '#' markers of a heading
HeadingCap == 6

\* lines 210-211, 230-231: f"{'#' * min(level, 6)} {title}"
HeadingLine(section) ==
    [k \in 1..(IF section.level < HeadingCap THEN section.level ELSE HeadingCap) |-> "#"]
        \o <<SP>> \o section.title

\* lines 217-220, 237-240: the normalised text and a blank line, when the
\* text is non-empty
TextLines(t, title) ==
    LET md == text_to_markdown(t, Some(title))
    IN  IF md # <<>> THEN <<md, <<>>>> ELSE <<>>

RECURSIVE TableLines(_)
\* lines 222-226, 242-246: each table that renders non-empty and a blank line
TableLines(tables) ==
    IF tables = <<>> THEN <<>>
    ELSE LET md == table_to_markdown(Head(tables))
         IN  (IF md # <<>> THEN <<md, <<>>>> ELSE <<>>) \o TableLines(Tail(tables))

\* a block that leaves out a section with no entry in the lookup
SectionBlockIfPresent(section, contents) ==
    IF section.title \in DOMAIN contents
    THEN <<HeadingLine(section), <<>>>>
             \o TextLines(contents[section.title].text, section.title)
             \o TableLines(contents[section.title].tables)
    ELSE <<>>
\* lines 209-226 for the parent, 230-246 for a child: the heading, a blank
\* line and, when the title is a key of the lookup, the text and the tables
SectionBlock(section, contents) ==
    <<HeadingLine(section), <<>>>> \o
        (IF section.title \in DOMAIN contents
         THEN TextLines(contents[section.title].text, section.title)
                  \o TableLines(contents[section.title].tables)
         ELSE <<>>)

\* lines 189-248
convert_merged_section(group, contents) ==
    JoinWith(SectionBlock(group.parent, contents)
                 \o Concat([k \in 1..Len(group.children) |->
                                SectionBlock(group.children[k], contents)]),
             <<NL>>)

\* a convert_section that does not pass the title to text_to_markdown
convert_section_untitled(section, t, tables) ==
    LET heading == [k \in 1..(IF section.level < 6 THEN section.level ELSE 6) |-> "#"]
        md == text_to_markdown(t, None)
    IN  JoinWith(<<heading \o <<SP>> \o section.title, <<>>>>
                     \o (IF md # <<>> THEN <<md, <<>>>> ELSE <<>>)
                     \o TableLines(tables),
                 <<NL>>)
\* lines 135-163
convert_section(section, t, tables) ==
    LET heading == [k \in 1..(IF section.level < 6 THEN section.level ELSE 6) |-> "#"]
        md == text_to_markdown(t, Some(section.title))
    IN  JoinWith(<<heading \o <<SP>> \o section.title, <<>>>>
                     \o (IF md # <<>> THEN <<md, <<>>>> ELSE <<>>)
                     \o TableLines(tables),
                 <<NL>>)

\* the sections of the groups rendered: two titles, a level below and a
\* level above the cap of the heading
RenderSections == [title : {<<"a">>, <<"1", ".", "b">>}, level : {1, HeadingCap + 1}]

\* the groups rendered: a parent and up to MaxChildren children
RenderGroups ==
    [parent : RenderSections, children : SeqsUpTo(RenderSections, MaxChildren)]

\* what a section's extraction can hold: no text or a text that starts with
\* a title, and no table, a table, a table that renders to nothing and a table
RenderEntries ==
    [text : {<<>>, <<"b", NL, "1", NL, "a">>},
     tables : {<<>>, << << << <<"a">> >> >> >>,
               << << << <<SP>> >> >>, << << <<"a">>, <<PIPE>> >> >> >>}]

\* the lookups: each title has an entry or none
RenderLookups ==
    UNION {[keys -> RenderEntries] : keys \in SUBSET {sec.title : sec \in RenderSections}}

RenderInit ==
    /\ merged \in RenderGroups
    /\ section_contents \in RenderLookups
    /\ rendered = <<>>
    /\ converted = None
    /\ render_pc = "ready"

\* a call of convert_merged_section(merged, section_contents, index)
ConvertMerged ==
    /\ render_pc = "ready"
    /\ rendered' = convert_merged_section(merged, section_contents)
    /\ render_pc' = "done"
    /\ UNCHANGED <<merged, section_contents, converted, notRender>>

\* a call of convert_section(section, text, tables, index) for the parent of
\* the group with the text and the tables the lookup holds for it, as
\* save_section makes it (line 182)
ConvertSection ==
    /\ converted = None
    /\ merged.parent.title \in DOMAIN section_contents
    /\ converted' = Some(convert_section(merged.parent,
                                         section_contents[merged.parent.title].text,
                                         section_contents[merged.parent.title].tables))
    /\ UNCHANGED <<merged, section_contents, rendered, render_pc, notRender>>

\* convert_merged_section is not part of the specification checked
RenderIdle ==
    /\ merged = <<>>
    /\ section_contents = <<>>
    /\ rendered = <<>>
    /\ converted = None
    /\ render_pc = "idle"

----------------------------------------------------------------------------
(* core/pdf_reader.py: PDFReader.extract_text, extract_tables              *)

\* lines 7-8
HEADER_MARGIN == 50
FOOTER_MARGIN == 50

Min2(a, b) == IF a < b THEN a ELSE b
Max2(a, b) == IF a > b THEN a ELSE b

\* fitz.Rect(x0, y0, x1, y1)
Rect(x0, y0, x1, y1) == [x0 |-> x0, y0 |-> y0, x1 |-> x1, y1 |-> y1]

\* fitz.Rect.intersects: the two rectangles have a non-empty rectangle in common
Intersects(a, b) ==
    /\ a.x0 < a.x1 /\ a.y0 < a.y1
    /\ b.x0 < b.x1 /\ b.y0 < b.y1
    /\ Max2(a.x0, b.x0) < Min2(a.x1, b.x1)
    /\ Max2(a.y0, b.y0) < Min2(a.y1, b.y1)

\* a band that takes the section's coordinates without the margins
ClipBandNoMargin(page_num, start_page, end_page, start_y, end_y, page_height) ==
    [top    |-> IF page_num = start_page THEN start_y ELSE 0,
     bottom |-> IF page_num = end_page /\ end_y # Inf THEN end_y ELSE page_height]
\* a band whose top on the start page is start_y without the header margin
ClipBandTopUnclamped(page_num, start_page, end_page, start_y, end_y, page_height) ==
    [top    |-> IF page_num = start_page THEN start_y ELSE HEADER_MARGIN,
     bottom |-> IF page_num = end_page /\ end_y # Inf
                THEN Min2(end_y, page_height - FOOTER_MARGIN)
                ELSE page_height - FOOTER_MARGIN]
\* lines 249-265: clip_top and clip_bottom of a page in extract_text
ClipBand(page_num, start_page, end_page, start_y, end_y, page_height) ==
    IF page_num = start_page /\ page_num = end_page
    THEN [top    |-> Max2(start_y, HEADER_MARGIN),
          bottom |-> IF end_y # Inf THEN Min2(end_y, page_height - FOOTER_MARGIN)
                     ELSE page_height - FOOTER_MARGIN]
    ELSE IF page_num = start_page
    THEN [top    |-> Max2(start_y, HEADER_MARGIN),
          bottom |-> page_height - FOOTER_MARGIN]
    ELSE IF page_num = end_page
    THEN [top    |-> HEADER_MARGIN,
          bottom |-> IF end_y # Inf THEN Min2(end_y, page_height - FOOTER_MARGIN)
                     ELSE page_height - FOOTER_MARGIN]
    ELSE [top    |-> HEADER_MARGIN,
          bottom |-> page_height - FOOTER_MARGIN]

\* a band of extract_tables that is the whole page
ValidBandWholePage(page_num, start_page, end_page, start_y, end_y, page_height) ==
    [top |-> 0, bottom |-> page_height]
\* lines 333-345: valid_top and valid_bottom of a page in extract_tables
ValidBand(page_num, start_page, end_page, start_y, end_y, page_height) ==
    IF page_num = start_page /\ page_num = end_page
    THEN [top    |-> Max2(start_y, HEADER_MARGIN),
          bottom |-> IF end_y # Inf THEN Min2(end_y, page_height - FOOTER_MARGIN)
                     ELSE page_height - FOOTER_MARGIN]
    ELSE IF page_num = start_page
    THEN [top    |-> Max2(start_y, HEADER_MARGIN),
          bottom |-> page_height - FOOTER_MARGIN]
    ELSE IF page_num = end_page
    THEN [top    |-> HEADER_MARGIN,
          bottom |-> IF end_y # Inf THEN Min2(end_y, page_height - FOOTER_MARGIN)
                     ELSE page_height - FOOTER_MARGIN]
    ELSE [top    |-> HEADER_MARGIN,
          bottom |-> page_height - FOOTER_MARGIN]

\* lines 215-226: the tables of a page that lie within the band
get_table_rects(page, valid_top, valid_bottom) ==
    SelectSeq(page.tables, LAMBDA t : t.bbox.y0 >= valid_top /\ t.bbox.y1 <= valid_bottom)

\* line 274: page.get_text("dict", clip=clip_rect)["blocks"], taken to be the
\* blocks of the page that reach into the clip rectangle
get_text_blocks(page, clip_rect) ==
    SelectSeq(page.blocks, LAMBDA b : Intersects(b.bbox, clip_rect))

\* lines 267-290: the blocks of a page whose lines extract_text takes
KeptBlocks(page, clip_top, clip_bottom, exclude_tables) ==
    LET table_rects == IF exclude_tables
                       THEN get_table_rects(page, clip_top, clip_bottom) ELSE <<>>
        blocks == get_text_blocks(page, Rect(0, clip_top, page.width, clip_bottom))
    IN  SelectSeq(blocks, LAMBDA b :
            /\ b.type = 0
            /\ \A k \in 1..Len(table_rects) : ~Intersects(b.bbox, table_rects[k].bbox))

\* lines 266-297: page_text_parts, the lines of a page that are kept
PageTextParts(page, clip_top, clip_bottom, exclude_tables) ==
    LET kept == KeptBlocks(page, clip_top, clip_bottom, exclude_tables)
    IN  Concat([k \in 1..Len(kept) |->
                   SelectSeq(kept[k].lines, LAMBDA l : Strip(l) # <<>>)])

\* range(start_page, end_page + 1) restricted by line 245
PagesInRange(d, start_page, end_page) ==
    SelectSeq([k \in 1..(end_page - start_page + 1) |-> start_page + k - 1],
              LAMBDA p : 0 <= p /\ p < page_count(d))

\* lines 244-265: the pages extract_text visits, each with its clip band
ClipBands(d, start_page, end_page, start_y, end_y) ==
    LET nums == PagesInRange(d, start_page, end_page) IN
    [k \in 1..Len(nums) |->
        [page_num |-> nums[k],
         band |-> ClipBand(nums[k], start_page, end_page, start_y, end_y,
                           Val(d).pages[nums[k] + 1].height)]]

\* lines 228-302; page p (0-based) is Val(d).pages[p + 1]
extract_text(d, start_page, end_page, start_y, end_y, exclude_tables) ==
    IF d = None THEN <<>>
    ELSE LET clips == ClipBands(d, start_page, end_page, start_y, end_y)
             parts == [k \in 1..Len(clips) |->
                         PageTextParts(Val(d).pages[clips[k].page_num + 1],
                                       clips[k].band.top, clips[k].band.bottom,
                                       exclude_tables)]
             text_parts == SelectSeq(parts, LAMBDA pp : pp # <<>>)
         IN  JoinWith([k \in 1..Len(text_parts) |-> JoinWith(text_parts[k], <<NL>>)], <<NL>>)

\* lines 304-311
extract_section_text(d, section) ==
    extract_text(d, section.start_page, section.end_page,
                 section.start_y, section.end_y, TRUE)

\* lines 320-345: the pages extract_tables visits, each with its valid band
ValidBands(d, start_page, end_page, start_y, end_y) ==
    LET nums == PagesInRange(d, start_page, end_page) IN
    [k \in 1..Len(nums) |->
        [page_num |-> nums[k],
         band |-> ValidBand(nums[k], start_page, end_page, start_y, end_y,
                            Val(d).pages[nums[k] + 1].height)]]

\* the tables with data that reach into the band
CollectedTablesOverlapping(page, valid_top, valid_bottom) ==
    SelectSeq(page.tables, LAMBDA t :
        /\ t.bbox.y0 < valid_bottom /\ t.bbox.y1 > valid_top
        /\ t.data # <<>>)
\* lines 325-351: the tables of a page that extract_tables collects
CollectedTables(page, valid_top, valid_bottom) ==
    SelectSeq(page.tables, LAMBDA t :
        /\ t.bbox.y0 >= valid_top /\ t.bbox.y1 <= valid_bottom
        /\ t.data # <<>>)

\* lines 313-353
extract_tables(d, start_page, end_page, start_y, end_y) ==
    IF d = None THEN <<>>
    ELSE LET valid == ValidBands(d, start_page, end_page, start_y, end_y)
         IN  Concat([k \in 1..Len(valid) |->
                 LET found == CollectedTables(Val(d).pages[valid[k].page_num + 1],
                                              valid[k].band.top, valid[k].band.bottom)
                 IN  [j \in 1..Len(found) |-> found[j].data]])

\* lines 355-362
extract_section_tables(d, section) ==
    extract_tables(d, section.start_page, section.end_page,
                   section.start_y, section.end_y)

\* a page with a block in the header band, a block with a blank line, a block
\* inside a table, an image block and a block in the footer band; its second
\* table has no height, its third table lies below a bookmark's y
PageA ==
    [height |-> 800, width |-> 600,
     blocks |-> << [bbox |-> Rect(50, 10, 550, 40), type |-> 0, lines |-> << <<"h">> >>],
                   [bbox |-> Rect(50, 100, 550, 200), type |-> 0,
                    lines |-> << <<"a">>, <<SP>> >>],
                   [bbox |-> Rect(100, 300, 500, 350), type |-> 0, lines |-> << <<"t">> >>],
                   [bbox |-> Rect(50, 500, 550, 600), type |-> 1, lines |-> <<>>],
                   [bbox |-> Rect(50, 760, 550, 790), type |-> 0, lines |-> << <<"f">> >>] >>,
     tables |-> << [bbox |-> Rect(100, 290, 500, 450), data |-> << << <<"t">> >> >>],
                   [bbox |-> Rect(100, 400, 500, 400), data |-> << << <<"z">> >> >>],
                   [bbox |-> Rect(100, 620, 500, 700), data |-> << << <<"u">> >> >>] >>]

\* a page with a block below a bookmark's y, a table without data with a
\* block inside it and a table that reaches into the footer band, also with
\* a block inside it
PageB ==
    [height |-> 800, width |-> 600,
     blocks |-> << [bbox |-> Rect(50, 420, 550, 500), type |-> 0, lines |-> << <<"b">> >>],
                   [bbox |-> Rect(100, 530, 500, 590), type |-> 0, lines |-> << <<"d">> >>],
                   [bbox |-> Rect(100, 710, 500, 740), type |-> 0, lines |-> << <<"c">> >>] >>,
     tables |-> << [bbox |-> Rect(100, 520, 500, 600), data |-> <<>>],
                   [bbox |-> Rect(100, 700, 500, 780), data |-> << << <<"c">> >> >>] >>]

\* the layout of page p (1-based) of a document: the two pages in turn
PageLayout(p) == IF p % 2 = 1 THEN PageA ELSE PageB

\* the y coordinates of the bookmarks of a document read for extraction: in
\* the body of the page and in its footer margin (a bookmark without
\* destination has y 0, in the header margin)
ExtractDestYs == DestYs \cup {780}

\* the outline entries of a document read for extraction: bookmarks on the
\* first and on the last page of n pages
ExtractTocItems(n) ==
    [level : {1}, title : {<<"a">>}, page : {1, n} \cap 1..n,
     dest : {None} \cup {Some(y) : y \in ExtractDestYs}]

\* a page lower than the two margins together, with one block
PageC ==
    [height |-> 80, width |-> 600,
     blocks |-> << [bbox |-> Rect(50, 20, 550, 60), type |-> 0, lines |-> << <<"s">> >>] >>,
     tables |-> <<>>]

\* documents of one low page
SmallPageFiles ==
    [page_count : {1}, toc : SeqsUpTo(ExtractTocItems(1), MaxBookmarks),
     pages : {<<PageC>>}]

\* what fitz.open(pdf_path) can return: the page count, the outline and the
\* layout of every page
ExtractFiles ==
    UNION { [page_count : {n}, toc : SeqsUpTo(ExtractTocItems(n), MaxBookmarks),
             pages : {[p \in 1..n |-> PageLayout(p)]}] : n \in 0..MaxDocPages }
        \cup SmallPageFiles

\* a range a caller can ask for without get_sections: the whole document
ProbeSection ==
    [title |-> <<"a">>, level |-> 1, start_page |-> 0, end_page |-> MaxDocPages - 1,
     start_y |-> 0, end_y |-> Inf]

\* the sections a caller passes: one that get_sections has returned (the
\* document may have been closed since) or the probe
CallSections == {sections[i] : i \in 1..Len(sections)} \cup {ProbeSection}

\* no read yet
NoCall == [op |-> "none"]

ExtractInit ==
    /\ pdf_file \in ExtractFiles
    /\ doc = None
    /\ sections = <<>>
    /\ reader_pc = "idle"
    /\ extracted = NoCall

\* a read of reader.page_count
PageCount ==
    /\ extracted' = [op |-> "page_count", was_open |-> doc # None,
                     result |-> page_count(doc)]
    /\ UNCHANGED notExtract

\* a call of extract_section_text(section)
ExtractSectionText ==
    \E section \in CallSections :
        /\ extracted' = [op |-> "text", section |-> section, was_open |-> doc # None,
                         result |-> extract_section_text(doc, section)]
        /\ UNCHANGED notExtract

\* a call of extract_section_tables(section)
ExtractSectionTables ==
    \E section \in CallSections :
        /\ extracted' = [op |-> "tables", section |-> section, was_open |-> doc # None,
                         result |-> extract_section_tables(doc, section)]
        /\ UNCHANGED notExtract

\* what the two calls made for one section do, page by page: the band, the
\* table regions excluded and the blocks taken by extract_text, the band and
\* the tables collected by extract_tables
SectionPages(d, section) ==
    IF d = None THEN <<>>
    ELSE LET clips == ClipBands(d, section.start_page, section.end_page,
                                section.start_y, section.end_y)
             valid == ValidBands(d, section.start_page, section.end_page,
                                 section.start_y, section.end_y)
         IN  [k \in 1..Len(clips) |->
                LET page == Val(d).pages[clips[k].page_num + 1] IN
                [page_num  |-> clips[k].page_num,
                 clip      |-> clips[k].band,
                 excluded  |-> get_table_rects(page, clips[k].band.top, clips[k].band.bottom),
                 kept      |-> KeptBlocks(page, clips[k].band.top, clips[k].band.bottom, TRUE),
                 valid     |-> valid[k].band,
                 collected |-> CollectedTables(page, valid[k].band.top, valid[k].band.bottom)]]

\* gui/app.py lines 307-313: the text and the tables of every section of the
\* list, read one section after the other
ExtractSections ==
    /\ sections # <<>>
    /\ extracted' = [op |-> "sections", was_open |-> doc # None,
                     result |-> [i \in 1..Len(sections) |->
                                   [section |-> sections[i],
                                    text    |-> extract_section_text(doc, sections[i]),
                                    tables  |-> extract_section_tables(doc, sections[i]),
                                    pages   |-> SectionPages(doc, sections[i])]]]
    /\ UNCHANGED notExtract

\* the extraction calls are not part of the specification checked
ExtractIdle == extracted = NoCall

----------------------------------------------------------------------------
(* gui/app.py: PDFSplitterApp and its conversion thread                    *)

\* the PDF files the user can pick and what get_sections returns for each:
\* two sections share a title, one is a child
AppPdfs == {"x", "y"}
AppSectionsOf(pdf) ==
    IF pdf = "x"
    THEN << [title |-> "a", level |-> 1], [title |-> "b", level |-> 2],
            [title |-> "a", level |-> 1] >>
    ELSE << [title |-> "c", level |-> 1] >>

\* core/pdf_reader.py lines 33-37
get_max_level(secs) ==
    IF secs = <<>> THEN 0 ELSE Max({secs[i].level : i \in 1..Len(secs)})

\* lines 229-233, 250: the sections whose checkbox is set
SelectedSections ==
    LET idx == SelectSeq([i \in 1..Len(gui_sections) |-> i], LAMBDA i : section_vars[i])
    IN  [k \in 1..Len(idx) |-> gui_sections[idx[k]]]

\* core/md_converter.py lines 165-168, 258-259: the path of a group's file;
\* the index is not part of it, so equal titles give the same path
FilePath(group) == group.parent.title

\* the state of the convert button once a run is started when the button
\* is left as it is
ButtonLeftEnabled == "normal"
\* line 256
ButtonOnStart == "disabled"

\* where the thread is after a failed save when the exception is not caught
DiesOnFailedSave == "dead"
\* where the thread goes on after a failed save when the failure is skipped
SkipsFailedSave == "run"
\* lines 330, 337: an exception of save_merged_section leaves both loops
OnFailedSave == "raised"

\* the save loop entered whatever is left to extract
ExtractionDoneAlways(w) == TRUE
\* lines 307-322: the extraction loop has run over all selected sections
ExtractionDone(w) == w.i > Len(w.selected)

AppInit ==
    /\ pdf_path = None
    /\ gui_sections = <<>>
    /\ section_vars = <<>>
    /\ split_level_var = None
    /\ output_entry = FALSE
    /\ convert_btn = "normal"
    /\ status_var = "ready"
    /\ progress = 0
    /\ workers = <<>>
    /\ after_queue = <<>>
    /\ files = [t \in {} |-> 0]
    /\ runs = 0
    /\ user_events = 0
    /\ outcomes = <<>>

\* the user has events left in this behaviour
UserCan == user_events < MaxUserEvents /\ user_events' = user_events + 1

\* lines 137-153 with 162-201: the user picks a PDF file
BrowsePdf ==
    \E pdf \in AppPdfs :
        /\ UserCan
        /\ pdf_path' = Some(pdf)
        /\ gui_sections' = AppSectionsOf(pdf)
        /\ section_vars' = [i \in 1..Len(AppSectionsOf(pdf)) |-> TRUE]
        /\ split_level_var' = None
        /\ status_var' = "loaded"
        /\ output_entry' = TRUE
        /\ UNCHANGED <<convert_btn, progress, workers, after_queue, files, runs,
                       outcomes, notApp>>

\* a click on the checkbox of a section
ToggleSection ==
    \E i \in 1..Len(section_vars) :
        /\ UserCan
        /\ section_vars' = [section_vars EXCEPT ![i] = ~section_vars[i]]
        /\ UNCHANGED <<pdf_path, gui_sections, split_level_var, output_entry, convert_btn,
                       status_var, progress, workers, after_queue, files, runs, outcomes, notApp>>

\* lines 203-211: select all, deselect all
SelectAll ==
    \E value \in BOOLEAN :
        /\ UserCan
        /\ section_vars' = [i \in 1..Len(section_vars) |-> value]
        /\ UNCHANGED <<pdf_path, gui_sections, split_level_var, output_entry, convert_btn,
                       status_var, progress, workers, after_queue, files, runs, outcomes, notApp>>

\* lines 192-194: the user picks "all levels" or a level up to max_level
ChooseLevel ==
    \E level \in {None} \cup {Some(n) : n \in 1..get_max_level(gui_sections)} :
        /\ UserCan
        /\ split_level_var' = level
        /\ UNCHANGED <<pdf_path, gui_sections, section_vars, output_entry, convert_btn,
                       status_var, progress, workers, after_queue, files, runs, outcomes, notApp>>

\* lines 221-267: a click on the convert button, which a disabled button
\* ignores; the three early returns change nothing
StartConversion ==
    /\ UserCan
    /\ convert_btn = "normal"
    /\ IF pdf_path = None \/ ~output_entry \/ SelectedSections = <<>>
       THEN UNCHANGED <<convert_btn, progress, workers, runs>>
       ELSE /\ convert_btn' = ButtonOnStart
            /\ progress' = 0
            /\ runs' = runs + 1
            /\ workers' = Append(workers,
                   [run |-> runs + 1,
                    selected |-> SelectedSections,
                    merged |-> merge_sections_by_level(SelectedSections, split_level_var),
                    pc |-> "open", i |-> 1, k |-> 1, doc |-> None,
                    contents |-> [t \in {} |-> 0], log |-> <<>>,
                    failed |-> 0, files_before |-> files])
    /\ UNCHANGED <<pdf_path, gui_sections, section_vars, split_level_var, output_entry,
                   status_var, after_queue, files, outcomes, notApp>>

\* the thread w with some of its fields changed
WithWorker(w, changed) == [workers EXCEPT ![w] = changed]

\* a file of the output folder written or rewritten
Written(path, content) ==
    [t \in DOMAIN files \cup {path} |-> IF t = path THEN content ELSE files[t]]

\* lines 303, 102-104: the thread opens whatever self.pdf_path names now
WorkerOpen ==
    \E w \in 1..Len(workers) :
        /\ workers[w].pc = "open"
        /\ workers' = WithWorker(w, [workers[w] EXCEPT
                          !.doc = pdf_path, !.pc = "run", !.log = Append(@, <<"open">>)])
        /\ UNCHANGED <<pdf_path, gui_sections, section_vars, split_level_var, output_entry,
                       convert_btn, status_var, progress, after_queue, files, runs,
                       user_events, outcomes, notApp>>

\* lines 303, 337-339: fitz.open raises (the file is gone or no PDF)
WorkerOpenFails ==
    \E w \in 1..Len(workers) :
        /\ workers[w].pc = "open"
        /\ workers' = WithWorker(w, [workers[w] EXCEPT
                          !.pc = "done", !.log = Append(@, <<"raise">>)])
        /\ after_queue' = Append(after_queue, [kind |-> "error", run |-> workers[w].run])
        /\ UNCHANGED <<pdf_path, gui_sections, section_vars, split_level_var, output_entry,
                       convert_btn, status_var, progress, files, runs, user_events, outcomes, notApp>>

\* lines 307-318: one round of the extraction loop
WorkerExtract ==
    \E w \in 1..Len(workers) :
        LET me == workers[w]
            title == me.selected[me.i].title
        IN  /\ me.pc = "run"
            /\ me.i <= Len(me.selected)
            /\ workers' = WithWorker(w, [me EXCEPT
                   !.contents = [t \in DOMAIN me.contents \cup {title} |->
                                    IF t = title THEN [doc |-> me.doc, section |-> me.i]
                                    ELSE me.contents[t]],
                   !.log = Append(@, <<"extract", me.i>>),
                   !.i = @ + 1])
            /\ after_queue' = after_queue \o
                   << [kind |-> "status", run |-> me.run, value |-> "extract"],
                      [kind |-> "progress", run |-> me.run, value |-> me.i] >>
            /\ UNCHANGED <<pdf_path, gui_sections, section_vars, split_level_var,
                           output_entry, convert_btn, status_var, progress, files, runs,
                           user_events, outcomes, notApp>>

\* lines 323-333 with core/md_converter.py 250-266: one round of the save
\* loop in which the file is written
WorkerSave ==
    \E w \in 1..Len(workers) :
        LET me == workers[w] IN
        /\ me.pc = "run"
        /\ ExtractionDone(me)
        /\ me.k <= Len(me.merged)
        /\ files' = Written(FilePath(me.merged[me.k]),
                            [run |-> me.run, group |-> me.k, whole |-> TRUE])
        /\ workers' = WithWorker(w, [me EXCEPT
               !.log = Append(@, <<"write", me.k>>), !.k = @ + 1])
        /\ after_queue' = after_queue \o
               << [kind |-> "status", run |-> me.run, value |-> "save"],
                  [kind |-> "progress", run |-> me.run, value |-> Len(me.selected) + me.k] >>
        /\ UNCHANGED <<pdf_path, gui_sections, section_vars, split_level_var, output_entry,
                       convert_btn, status_var, progress, runs, user_events, outcomes, notApp>>

\* the same round when the write fails: open() raises and the folder stays as
\* it is, or the write raises after open() has emptied the file
WorkerSaveFails ==
    \E w \in 1..Len(workers), emptied \in BOOLEAN :
        LET me == workers[w] IN
        /\ me.pc = "run"
        /\ ExtractionDone(me)
        /\ me.k <= Len(me.merged)
        /\ files' = IF emptied
                    THEN Written(FilePath(me.merged[me.k]),
                                 [run |-> me.run, group |-> me.k, whole |-> FALSE])
                    ELSE files
        /\ workers' = WithWorker(w, [me EXCEPT
               !.pc = OnFailedSave, !.failed = me.k, !.files_before = files,
               !.log = Append(@, <<"fail", me.k>>), !.k = @ + 1])
        /\ after_queue' = Append(after_queue,
               [kind |-> "status", run |-> me.run, value |-> "save"])
        /\ UNCHANGED <<pdf_path, gui_sections, section_vars, split_level_var, output_entry,
                       convert_btn, status_var, progress, runs, user_events, outcomes, notApp>>

\* lines 303, 335-336: both loops are over, the with block closes the
\* document and the completion is posted
WorkerFinish ==
    \E w \in 1..Len(workers) :
        LET me == workers[w] IN
        /\ me.pc = "run"
        /\ me.i > Len(me.selected)
        /\ me.k > Len(me.merged)
        /\ workers' = WithWorker(w, [me EXCEPT
               !.doc = None, !.pc = "done", !.log = Append(@, <<"close">>)])
        /\ after_queue' = Append(after_queue, [kind |-> "complete", run |-> me.run])
        /\ UNCHANGED <<pdf_path, gui_sections, section_vars, split_level_var, output_entry,
                       convert_btn, status_var, progress, files, runs, user_events, outcomes, notApp>>

\* lines 303, 337-339: the exception leaves the with block, which closes the
\* document, and the failure is posted
WorkerRaise ==
    \E w \in 1..Len(workers) :
        LET me == workers[w] IN
        /\ me.pc = "raised"
        /\ workers' = WithWorker(w, [me EXCEPT
               !.doc = None, !.pc = "done", !.log = Append(@, <<"close">>)])
        /\ after_queue' = Append(after_queue, [kind |-> "error", run |-> me.run])
        /\ UNCHANGED <<pdf_path, gui_sections, section_vars, split_level_var, output_entry,
                       convert_btn, status_var, progress, files, runs, user_events, outcomes, notApp>>

\* the threads without the one of a run
WithoutRun(run) == SelectSeq(workers, LAMBDA w : w.run # run)

\* lines 309-310, 325-326: the main loop runs a posted status update
SetStatus ==
    /\ after_queue # <<>> /\ Head(after_queue).kind = "status"
    /\ status_var' = Head(after_queue).value
    /\ after_queue' = Tail(after_queue)
    /\ UNCHANGED <<pdf_path, gui_sections, section_vars, split_level_var, output_entry,
                   convert_btn, progress, workers, files, runs, user_events, outcomes, notApp>>

\* lines 341-343
UpdateProgress ==
    /\ after_queue # <<>> /\ Head(after_queue).kind = "progress"
    /\ progress' = Head(after_queue).value
    /\ after_queue' = Tail(after_queue)
    /\ UNCHANGED <<pdf_path, gui_sections, section_vars, split_level_var, output_entry,
                   convert_btn, status_var, workers, files, runs, user_events, outcomes, notApp>>

\* lines 345-349: the button, the status and the message box; the run is
\* over once its outcome is delivered
ConversionComplete ==
    /\ after_queue # <<>> /\ Head(after_queue).kind = "complete"
    /\ convert_btn' = "normal"
    /\ status_var' = "complete"
    /\ workers' = WithoutRun(Head(after_queue).run)
    /\ outcomes' = Append(outcomes, [run |-> Head(after_queue).run, kind |-> "complete"])
    /\ after_queue' = Tail(after_queue)
    /\ UNCHANGED <<pdf_path, gui_sections, section_vars, split_level_var, output_entry,
                   progress, files, runs, user_events, notApp>>

\* lines 351-355
ConversionError ==
    /\ after_queue # <<>> /\ Head(after_queue).kind = "error"
    /\ convert_btn' = "normal"
    /\ status_var' = "failed"
    /\ workers' = WithoutRun(Head(after_queue).run)
    /\ outcomes' = Append(outcomes, [run |-> Head(after_queue).run, kind |-> "error"])
    /\ after_queue' = Tail(after_queue)
    /\ UNCHANGED <<pdf_path, gui_sections, section_vars, split_level_var, output_entry,
                   progress, files, runs, user_events, notApp>>

\* the application is not part of the specification checked
AppIdle ==
    /\ pdf_path = None
    /\ gui_sections = <<>>
    /\ section_vars = <<>>
    /\ split_level_var = None
    /\ output_entry = FALSE
    /\ convert_btn = "off"
    /\ status_var = "off"
    /\ progress = 0
    /\ workers = <<>>
    /\ after_queue = <<>>
    /\ files = <<>>
    /\ runs = 0
    /\ user_events = 0
    /\ outcomes = <<>>

----------------------------------------------------------------------------
(* Specification of the text normaliser                                    *)

InitText ==
    /\ TextInit
    /\ MergeIdle
    /\ ReaderIdle
    /\ TableIdle
    /\ NameIdle
    /\ RenderIdle
    /\ ExtractIdle
    /\ AppIdle
NextText == Convert \/ ConvertAgain
SpecText == InitText /\ [][NextText]_vars

----------------------------------------------------------------------------
(* Specification of the merger                                             *)

InitMerge ==
    /\ MergeInit
    /\ ReaderIdle
    /\ TextIdle
    /\ TableIdle
    /\ NameIdle
    /\ RenderIdle
    /\ ExtractIdle
    /\ AppIdle
NextMerge == Merge
SpecMerge == InitMerge /\ [][NextMerge]_vars

----------------------------------------------------------------------------
(* Claims about the merger                                                 *)

\* [parent] + children of every group, in emission order
Flatten(groups) ==
    Concat([k \in 1..Len(groups) |-> <<groups[k].parent>> \o groups[k].children])

IsInt(level) == level # None

\* C1: for any flat section list and any split level, the groups hold every
\* input section exactly once, and [parent]+children of the groups in
\* emission order is the input list in its original order.
C1_MergeComplete ==
    merge_pc = "done" => Flatten(merged_sections) = selected_sections

\* C2: with an integer split_level, every parent has level <= split_level and
\* every child is strictly deeper than its parent and than split_level.
C2_GroupLevels ==
    (merge_pc = "done" /\ IsInt(split_level)) =>
        \A k \in 1..Len(merged_sections) :
            LET g == merged_sections[k] IN
            /\ g.parent.level <= Val(split_level)
            /\ \A c \in 1..Len(g.children) :
                   /\ g.children[c].level > g.parent.level
                   /\ g.children[c].level > Val(split_level)

C2_Witness ==
    /\ merge_pc = "done" /\ IsInt(split_level)
    /\ \E k \in 1..Len(merged_sections) : Len(merged_sections[k].children) >= 2

\* positions of the input whose section has level <= split_level, ascending
RECURSIVE ParentPositions(_, _, _)
ParentPositions(secs, i, level) ==
    IF i > Len(secs) THEN <<>>
    ELSE IF secs[i].level <= level
         THEN <<i>> \o ParentPositions(secs, i + 1, level)
         ELSE ParentPositions(secs, i + 1, level)

\* last position of the maximal run after p of sections deeper than level
RunEnd(secs, p, level) ==
    CHOOSE q \in p..Len(secs) :
        /\ \A r \in (p + 1)..q : secs[r].level > level
        /\ (q = Len(secs) \/ secs[q + 1].level <= level)

\* C3: with an integer split_level the groups are, one to one and in input
\* order, the input sections of level <= split_level, and the children of a
\* group are the maximal contiguous run of deeper-than-split_level sections
\* that follows its parent in the input.
C3_GroupsAreRuns ==
    (merge_pc = "done" /\ IsInt(split_level)) =>
        LET pos == ParentPositions(selected_sections, 1, Val(split_level)) IN
        /\ Len(merged_sections) = Len(pos)
        /\ \A k \in 1..Len(pos) :
               /\ merged_sections[k].parent = selected_sections[pos[k]]
               /\ merged_sections[k].children =
                      SubSeq(selected_sections, pos[k] + 1,
                             RunEnd(selected_sections, pos[k], Val(split_level)))

\* a level gap: a level-1 parent directly followed by a level-3 child
C3_Witness ==
    /\ merge_pc = "done" /\ IsInt(split_level)
    /\ Len(merged_sections) >= 2
    /\ \E k \in 1..Len(merged_sections) :
           /\ merged_sections[k].parent.level = 1
           /\ Len(merged_sections[k].children) >= 1
           /\ merged_sections[k].children[1].level = 3

CoversAllLevels(secs, level) ==
    level = None \/ \A i \in 1..Len(secs) : secs[i].level <= Val(level)

\* C4: with split_level None, or an integer >= every input level, there is
\* exactly one group per input section, in input order, without children.
C4_OneGroupPerSection ==
    (merge_pc = "done" /\ CoversAllLevels(selected_sections, split_level)) =>
        merged_sections =
            [k \in 1..Len(selected_sections) |->
                [parent |-> selected_sections[k], children |-> <<>>]]

C4_Witness ==
    /\ merge_pc = "done"
    /\ IsInt(split_level)
    /\ Len(selected_sections) >= 3
    /\ \A i \in 1..Len(selected_sections) : selected_sections[i].level <= Val(split_level)
    /\ \E i \in 1..(Len(selected_sections) - 1) :
           selected_sections[i].level < selected_sections[i + 1].level
    /\ Len(merged_sections) = Len(selected_sections)

\* position of the first section of level <= level, Len(secs) + 1 when none
FirstParent(secs, level) ==
    LET pos == ParentPositions(secs, 1, level) IN
    IF pos = <<>> THEN Len(secs) + 1 ELSE pos[1]

\* input positions (the titles of the merger's input) found in some group
Grouped ==
    {Flatten(merged_sections)[k].title : k \in 1..Len(Flatten(merged_sections))}

\* C20: with an integer split_level the input sections that are in no group
\* are exactly the leading prefix before the first section of level <=
\* split_level; the prefix is non-empty only when the first section is deeper
\* than split_level, and every later section is in some group.
C20_DroppedPrefix ==
    (merge_pc = "done" /\ IsInt(split_level)) =>
        LET first == FirstParent(selected_sections, Val(split_level)) IN
        /\ {i \in 1..Len(selected_sections) : i \notin Grouped} = 1..(first - 1)
        /\ (first > 1 /\ selected_sections # <<>>) =>
               selected_sections[1].level > Val(split_level)
        /\ \A i \in first..Len(selected_sections) : i \in Grouped

\* two leading sections are dropped and a later group has a child
C20_Witness ==
    /\ merge_pc = "done" /\ IsInt(split_level)
    /\ FirstParent(selected_sections, Val(split_level)) = 3
    /\ Len(selected_sections) = 4
    /\ Len(merged_sections) = 1
    /\ Len(merged_sections[1].children) = 1

----------------------------------------------------------------------------
(* Specification of the reader                                             *)

InitReader ==
    /\ ReaderInit
    /\ MergeIdle
    /\ TextIdle
    /\ TableIdle
    /\ NameIdle
    /\ RenderIdle
    /\ ExtractIdle
    /\ AppIdle
NextReader == Open \/ Close \/ GetSections
SpecReader == InitReader /\ [][NextReader]_vars

----------------------------------------------------------------------------
(* Claims about get_sections                                               *)

\* get_sections() has returned for the open document
GotOpen == reader_pc = "got" /\ doc # None

Outline == Val(doc).toc

StartOf(s) == <<s.start_page, s.start_y>>
EndOf(s) == <<s.end_page, s.end_y>>
BookmarkPos(item) == <<item.page - 1, IF item.dest = None THEN 0 ELSE Val(item.dest)>>

\* C5: for a non-empty outline of n bookmarks, get_sections returns n
\* sections in bookmark order, each with its bookmark's level and start;
\* every section but the last ends where the next bookmark starts, whatever
\* the levels, and the last ends at (page_count - 1, +infinity).
C5_SectionBounds ==
    (GotOpen /\ Outline # <<>>) =>
        LET n == Len(Outline) IN
        /\ Len(sections) = n
        /\ \A i \in 1..n :
               /\ sections[i].level = Outline[i].level
               /\ StartOf(sections[i]) = BookmarkPos(Outline[i])
        /\ \A i \in 1..(n - 1) : EndOf(sections[i]) = BookmarkPos(Outline[i + 1])
        /\ EndOf(sections[n]) = <<Val(doc).page_count - 1, Inf>>

\* a level-1 bookmark followed by a deeper one and then another bookmark
C5_Witness ==
    /\ GotOpen /\ Len(Outline) >= 3
    /\ Outline[1].level < Outline[2].level
    /\ Outline[1].page # Outline[2].page
    /\ Len(sections) = Len(Outline)

\* lexicographic order of (page, y) positions
Before(a, b) == a[1] < b[1] \/ (a[1] = b[1] /\ a[2] < b[2])

\* position p lies in the half-open range of section s
InRange(s, p) == ~Before(p, StartOf(s)) /\ Before(p, EndOf(s))

\* sample positions of the open document, on every page
DocPoints == (0..(Val(doc).page_count - 1)) \X {0, 200, 400, 600}

Covering(p) == {i \in 1..Len(sections) : InRange(sections[i], p)}

Contiguous ==
    \A i \in 1..(Len(sections) - 1) : EndOf(sections[i]) = StartOf(sections[i + 1])

\* C6 as stated: for any non-empty outline the section ranges are
\* contiguous and non-overlapping and their union is the document from
\* (0, 0) up to (last_page, +infinity).
C6_Partition ==
    (GotOpen /\ Outline # <<>>) =>
        /\ Contiguous
        /\ StartOf(sections[1]) = <<0, 0>>
        /\ EndOf(sections[Len(sections)]) = <<Val(doc).page_count - 1, Inf>>
        /\ \A p \in DocPoints : Cardinality(Covering(p)) = 1

\* the bookmarks are in non-decreasing (page, y) order
InDocumentOrder ==
    \A i \in 1..(Len(Outline) - 1) :
        ~Before(BookmarkPos(Outline[i + 1]), BookmarkPos(Outline[i]))

\* C6 amended: for a non-empty outline in non-decreasing (page, y) order the
\* section ranges are contiguous and non-overlapping and their union is the
\* document from the first bookmark's position up to (last_page, +infinity).
C6_PartitionFromFirstBookmark ==
    (GotOpen /\ Outline # <<>> /\ InDocumentOrder) =>
        /\ Contiguous
        /\ StartOf(sections[1]) = BookmarkPos(Outline[1])
        /\ EndOf(sections[Len(sections)]) = <<Val(doc).page_count - 1, Inf>>
        /\ \A p \in DocPoints :
               Cardinality(Covering(p)) =
                   IF Before(p, BookmarkPos(Outline[1])) THEN 0 ELSE 1

C6_Witness ==
    /\ GotOpen /\ Len(Outline) >= 3 /\ InDocumentOrder
    /\ BookmarkPos(Outline[1]) # <<0, 0>>
    /\ Outline[1].page # Outline[3].page
    /\ Cardinality(Covering(<<Val(doc).page_count - 1, 600>>)) = 1

\* C7: for an open document with an empty outline get_sections returns one
\* section of level 1 from (0, 0) to (page_count - 1, +infinity), whose end
\* page is not before its start page.
C7_WholeDocument ==
    (GotOpen /\ Outline = <<>>) =>
        /\ Len(sections) = 1
        /\ sections[1].level = 1
        /\ StartOf(sections[1]) = <<0, 0>>
        /\ EndOf(sections[1]) = <<Val(doc).page_count - 1, Inf>>
        /\ sections[1].end_page >= sections[1].start_page

----------------------------------------------------------------------------
(* Claims about text_to_markdown                                           *)

Supplied(title) == title # None /\ Val(title) # <<>>

\* the first line of t, trimmed
FirstLine(t) == Strip(Split(t)[1])

\* a trimmed line that is the full title or the title without its number
IsTitleLine(line, title) ==
    Supplied(title) /\ Strip(line) \in {Val(title), title_without_number(Val(title))}

C9_FirstLineNotTitle ==
    (text_pc # "idle" /\ Supplied(section_title) /\ md_text # <<>>) =>
        ~IsTitleLine(Split(md_text)[1], section_title)

TitleLines(t, title) == {i \in 1..Len(Split(t)) : IsTitleLine(Split(t)[i], title)}

\* C9 amended: the first line of a non-empty result, trimmed, is the full
\* title or the title without number only when the text holds at least two
\* such lines (only the first of them is removed).
C9_FirstLineTitleOnlyIfRepeated ==
    (text_pc # "idle" /\ Supplied(section_title) /\ md_text # <<>>
        /\ IsTitleLine(Split(md_text)[1], section_title))
        => Cardinality(TitleLines(text, section_title)) >= 2

\* the text starts with the numberless title, which is removed
C9_Witness ==
    /\ text_pc # "idle" /\ Supplied(section_title)
    /\ Val(section_title) # title_without_number(Val(section_title))
    /\ Cardinality(TitleLines(text, section_title)) = 1
    /\ FirstLine(RemovePageNumbers(text)) = title_without_number(Val(section_title))
    /\ md_text # <<>>
    /\ ~IsTitleLine(Split(md_text)[1], section_title)

\* a line of digits with optional surrounding blanks
IsPageNumberLine(line) ==
    /\ Strip(line) # <<>>
    /\ \A i \in 1..Len(Strip(line)) : IsDigit(Strip(line)[i])

\* a line that holds a character that is neither a digit nor a blank
HoldsContent(line) == \E i \in 1..Len(line) : ~IsDigit(line[i]) /\ ~IsSpace(line[i])

ContentLines(t) == SelectSeq(Split(t), HoldsContent)

\* C10: no line of the result is made of digits and surrounding blanks only,
\* and page-number suppression removes no line that holds a character that
\* is neither a digit nor a blank.
C10_PageNumbers ==
    text_pc # "idle" =>
        /\ \A i \in 1..Len(Split(md_text)) : ~IsPageNumberLine(Split(md_text)[i])
        /\ ContentLines(RemovePageNumbers(text)) = ContentLines(text)

\* a page number after the first line is removed and a line that mixes a
\* digit with a letter stays
C10_Witness ==
    /\ text_pc # "idle"
    /\ \E i \in 2..Len(Split(text)) : IsPageNumberLine(Split(text)[i])
    /\ \E i \in 1..Len(Split(md_text)) :
           /\ HoldsContent(Split(md_text)[i])
           /\ \E k \in 1..Len(Split(md_text)[i]) : IsDigit(Split(md_text)[i][k])

\* the lines of t that are neither blank nor a page number, trimmed, in order
KeptLines(t) ==
    LET kept == SelectSeq(Split(t), LAMBDA l : Strip(l) # <<>> /\ ~IsPageNumberLine(l))
    IN  [i \in 1..Len(kept) |-> Strip(kept[i])]

\* the first of the kept lines is the title, bare or full
TitleComesFirst(t, title) ==
    Supplied(title) /\ KeptLines(t) # <<>> /\ IsTitleLine(KeptLines(t)[1], title)

\* C21: text_to_markdown blanks at most one line for the title: the first
\* non-blank line left after page-number removal, and only when it equals
\* the bare title or the full title after trimming.  Page-number lines
\* before the title do not prevent the removal, with no title supplied
\* nothing is removed for it, and a later occurrence of the title and every
\* other non-page-number line is kept in order.
C21_OnlyLeadingTitleBlanked ==
    text_pc # "idle" =>
        KeptLines(md_text) = IF TitleComesFirst(text, section_title)
                             THEN Tail(KeptLines(text))
                             ELSE KeptLines(text)

\* a page number stands before the title, the title is removed and its
\* later occurrence stays
C21_Witness ==
    /\ text_pc # "idle" /\ TitleComesFirst(text, section_title)
    /\ IsPageNumberLine(Split(text)[1])
    /\ Cardinality(TitleLines(text, section_title)) >= 2
    /\ Len(KeptLines(md_text)) >= 1
    /\ IsTitleLine(KeptLines(md_text)[1], section_title)

----------------------------------------------------------------------------
(* Specification of the table functions                                    *)

InitTable ==
    /\ TableInit
    /\ MergeIdle
    /\ ReaderIdle
    /\ TextIdle
    /\ NameIdle
    /\ RenderIdle
    /\ ExtractIdle
    /\ AppIdle
NextTable == CleanTable \/ TableToMarkdown
SpecTable == InitTable /\ [][NextTable]_vars

----------------------------------------------------------------------------
(* Claims about the table functions                                        *)

\* _clean_table(table) has returned
Cleaned == table_pc \in {"cleaned", "done"}

\* the widest row of a matrix, 0 for the empty matrix
Width(m) == IF m = <<>> THEN 0 ELSE Max({Len(m[r]) : r \in 1..Len(m)})

\* a row none of whose cells is non-empty after cleaning
BlankRow(row) == \A c \in 1..Len(row) : clean_cell(row[c]) = <<>>

\* a column of a matrix, a missing cell counting as empty, with no non-empty
\* cell after cleaning
BlankCol(m, c) ==
    \A r \in 1..Len(m) : c <= Len(m[r]) => clean_cell(m[r][c]) = <<>>

Rectangular(m) == \A r \in 1..Len(m) : Len(m[r]) = Len(m[1])

\* the same of a cleaned matrix, whose cells are the cleaned cells
EmptyRow(row) == \A c \in 1..Len(row) : row[c] = <<>>
EmptyCol(m, c) == \A r \in 1..Len(m) : c <= Len(m[r]) => m[r][c] = <<>>

\* C11: for every input matrix, jagged ones included, the result of
\* _clean_table has no column that is all empty after cleaning, no row that
\* is all empty after cleaning, and every row has the width of the first row.
C11_CleanedShape ==
    Cleaned =>
        /\ \A c \in 1..Width(cleaned) : ~EmptyCol(cleaned, c)
        /\ \A r \in 1..Len(cleaned) : ~EmptyRow(cleaned[r])
        /\ Rectangular(cleaned)

\* the rows of the matrix given that hold a non-empty cell after cleaning
ContentRows == {r \in 1..Len(table) : ~BlankRow(table[r])}

\* row 0 has a cell and is blank after cleaning
BlankHeader == table # <<>> /\ table[1] # <<>> /\ BlankRow(table[1])

\* C12 as stated: when row 0 of the matrix is entirely blank after cleaning,
\* _clean_table returns the empty matrix and table_to_markdown returns the
\* empty string, even if later rows hold non-empty cells.
C12_BlankHeaderNoTable ==
    (table_pc = "done" /\ BlankHeader) => cleaned = <<>> /\ md_table = <<>>

\* the non-empty cells of a row after cleaning, in order
NonEmptyCells(row) ==
    SelectSeq([c \in 1..Len(row) |-> clean_cell(row[c])], LAMBDA x : x # <<>>)

\* C12 amended: a blank row 0 is dropped like any other blank row.  The
\* results are empty exactly when no row holds a non-empty cell; otherwise
\* there is one cleaned row per row with content and the header is the first
\* of them.
C12_BlankHeaderDropped ==
    (table_pc = "done" /\ BlankHeader) =>
        /\ (cleaned = <<>>) <=> (ContentRows = {})
        /\ (md_table = <<>>) <=> (ContentRows = {})
        /\ ContentRows # {} =>
               LET first == CHOOSE r \in ContentRows : \A q \in ContentRows : r <= q
               IN  /\ Len(cleaned) = Cardinality(ContentRows)
                   /\ SelectSeq(cleaned[1], LAMBDA x : x # <<>>)
                          = NonEmptyCells(table[first])

\* a blank header above a row with content: the row with content is rendered
C12_Witness ==
    /\ table_pc = "done" /\ BlankHeader
    /\ Len(table) = 2 /\ Len(table[1]) = 2
    /\ ContentRows = {2}
    /\ Len(cleaned) = 1
    /\ md_table # <<>>

RECURSIVE Sorted(_)
\* the members of a finite set of integers in increasing order
Sorted(S) ==
    IF S = {} THEN <<>>
    ELSE LET m == CHOOSE x \in S : \A y \in S : x <= y
         IN  <<m>> \o Sorted(S \ {m})

\* C13: for a rectangular matrix _clean_table returns the rectangular matrix
\* of exactly the columns non-empty in some row and the rows non-empty in
\* some cell, in their original order, each cell being clean_cell of the
\* input cell.
C13_RectangularCleaned ==
    (Cleaned /\ Rectangular(table)) =>
        LET rows == Sorted(ContentRows)
            cols == Sorted({c \in 1..Width(table) : ~BlankCol(table, c)})
        IN  /\ cleaned = [i \in 1..Len(rows) |->
                            [j \in 1..Len(cols) |-> clean_cell(table[rows[i]][cols[j]])]]
            /\ Rectangular(cleaned)

\* [["A", ""], ["B", ""]] with cells that cleaning changes gives [["A"], ["B"]]
C13_Witness ==
    /\ Cleaned
    /\ table = << << <<"a", NL, SP, PIPE>>, <<>> >>, << <<"a", NL, SP, PIPE>>, <<>> >> >>
    /\ cleaned = << << <<"a", SP, BS, PIPE>> >>, << <<"a", SP, BS, PIPE>> >> >>

----------------------------------------------------------------------------
(* Specification of sanitize_filename and the claim about it               *)

InitName ==
    /\ NameInit
    /\ MergeIdle
    /\ ReaderIdle
    /\ TextIdle
    /\ TableIdle
    /\ RenderIdle
    /\ ExtractIdle
    /\ AppIdle
NextName == Sanitize
SpecName == InitName /\ [][NextName]_vars

\* nothing of a title is left after the removal of the illegal characters
\* and the trimming of the underscores that spaces have become
NothingLeft(n) == \A i \in 1..Len(n) : n[i] \in Illegal \cup {SP, "_"}

C18_WitnessUntitled ==
    /\ name_pc = "done"
    /\ Len(name) = 3
    /\ filename = Untitled

----------------------------------------------------------------------------
(* Specification of convert_merged_section and the claim about it          *)

InitRender ==
    /\ RenderInit
    /\ MergeIdle
    /\ ReaderIdle
    /\ TextIdle
    /\ TableIdle
    /\ NameIdle
    /\ ExtractIdle
    /\ AppIdle
NextRender == ConvertMerged \/ ConvertSection
SpecRender == InitRender /\ [][NextRender]_vars

\* the members of the group rendered: the parent, then the children
Members == <<merged.parent>> \o merged.children

\* the lookup with an empty entry for every member title it lacks
Completed ==
    [k \in DOMAIN section_contents \cup {Members[i].title : i \in 1..Len(Members)} |->
        IF k \in DOMAIN section_contents THEN section_contents[k]
        ELSE [text |-> <<>>, tables |-> <<>>]]

\* C17: convert_merged_section returns a document whatever the lookup lacks;
\* a parent or child whose title is no key of the lookup contributes exactly
\* its heading line and a blank line, and the other members are rendered as
\* if the entry were present.
C17_MissingEntryHeadingOnly ==
    render_pc = "done" =>
        /\ rendered =
               JoinWith(Concat([i \in 1..Len(Members) |->
                           IF Members[i].title \in DOMAIN section_contents
                           THEN SectionBlock(Members[i], Completed)
                           ELSE <<HeadingLine(Members[i]), <<>>>>]), <<NL>>)
        /\ rendered = convert_merged_section(merged, Completed)

\* a child without an entry stands between a parent and a child with one
C17_Witness ==
    /\ render_pc = "done"
    /\ Len(merged.children) = 2
    /\ merged.parent.title \in DOMAIN section_contents
    /\ merged.children[1].title \notin DOMAIN section_contents
    /\ section_contents[merged.parent.title].text # <<>>
    /\ section_contents[merged.parent.title].tables # <<>>
    /\ merged.children[2] = merged.parent

\* min(level, 6) '#' markers, a blank and the title
StatedHeading(section) ==
    [k \in 1..Min2(section.level, 6) |-> "#"] \o <<SP>> \o section.title

\* the tables of a list that render to something, rendered, in order
RenderedTables(tables) ==
    SelectSeq([k \in 1..Len(tables) |-> table_to_markdown(tables[k])],
              LAMBDA md : md # <<>>)

\* the block of a section as text: its heading and an empty line, then its
\* normalised text when it is non-empty, then its rendered tables, each of
\* the parts followed by an empty line
StatedBlock(section) ==
    LET has == section.title \in DOMAIN section_contents
        md == IF has THEN text_to_markdown(section_contents[section.title].text,
                                           Some(section.title))
              ELSE <<>>
        tbls == IF has THEN RenderedTables(section_contents[section.title].tables)
                ELSE <<>>
    IN  StatedHeading(section) \o <<NL, NL>>
            \o (IF md # <<>> THEN md \o <<NL, NL>> ELSE <<>>)
            \o Concat([k \in 1..Len(tbls) |-> tbls[k] \o <<NL, NL>>])

\* C24: the document rendered for a group is the parent's block followed by
\* one block per child in children order; each block starts with a heading
\* of min(level, 6) '#' markers and the section's title, followed by that
\* section's normalised text when non-empty and then its non-empty rendered
\* tables in order; a group with no children whose parent has a lookup
\* entry renders to the same text as convert_section for that section and
\* content.
C24_BlocksInOrder ==
    /\ render_pc = "done" =>
           rendered \o <<NL>> = Concat([i \in 1..Len(Members) |-> StatedBlock(Members[i])])
    /\ (render_pc = "done" /\ converted # None /\ merged.children = <<>>) =>
           rendered = Val(converted)

\* a group without children, the level of its parent above the cap, whose
\* entry holds a text that starts with the title and tables of which one
\* renders to nothing: both functions have returned the same document
C24_Witness ==
    /\ render_pc = "done" /\ converted # None
    /\ merged.children = <<>>
    /\ merged.parent.level > 6
    /\ merged.parent.title \in DOMAIN section_contents
    /\ LET entry == section_contents[merged.parent.title] IN
         /\ entry.text # <<>>
         /\ text_to_markdown(entry.text, Some(merged.parent.title))
                # text_to_markdown(entry.text, None)
         /\ Len(entry.tables) > Len(RenderedTables(entry.tables))
         /\ RenderedTables(entry.tables) # <<>>
    /\ rendered = Val(converted)

----------------------------------------------------------------------------
(* Specification of the reader with its extraction calls, and its claim    *)

InitExtract ==
    /\ ExtractInit
    /\ MergeIdle
    /\ TextIdle
    /\ TableIdle
    /\ NameIdle
    /\ RenderIdle
    /\ AppIdle
NextExtract ==
    \/ Open \/ Close \/ GetSections
    \/ PageCount \/ ExtractSectionText \/ ExtractSectionTables \/ ExtractSections
SpecExtract == InitExtract /\ [][NextExtract]_vars

\* every read made while no document was open has returned the empty result
ClosedReadsEmpty ==
    /\ (reader_pc = "got" /\ doc = None) => sections = <<>>
    /\ (extracted.op = "page_count" /\ ~extracted.was_open) => extracted.result = 0
    /\ (extracted.op = "text" /\ ~extracted.was_open) => extracted.result = <<>>
    /\ (extracted.op = "tables" /\ ~extracted.was_open) => extracted.result = <<>>

\* a close with no open document leaves the reader as it is
CloseIsNoop == (Close /\ doc = None) => UNCHANGED <<pdf_file, doc, sections, extracted>>

\* C14: after any sequence of open and close calls, whenever no document is
\* open page_count is 0, get_sections returns an empty list, extract_text the
\* empty string and extract_tables an empty list; close on a reader with no
\* open document changes nothing.
C14_ClosedReaderEmpty == []ClosedReadsEmpty /\ [][CloseIsNoop]_vars

\* a section got from the open document is read after the close: the open
\* document has text and a table for it, the closed reader returns nothing
C14_Witness ==
    /\ doc = None
    /\ sections # <<>>
    /\ extracted.op = "text" /\ ~extracted.was_open
    /\ extracted.section = sections[1]
    /\ extracted.result = <<>>
    /\ extract_section_text(Some(pdf_file), sections[1]) # <<>>
    /\ extract_section_tables(Some(pdf_file), sections[1]) # <<>>

----------------------------------------------------------------------------
(* Specification of the application                                        *)

InitApp ==
    /\ AppInit
    /\ MergeIdle
    /\ ReaderIdle
    /\ TextIdle
    /\ TableIdle
    /\ NameIdle
    /\ RenderIdle
    /\ ExtractIdle
NextApp ==
    \/ BrowsePdf \/ ToggleSection \/ SelectAll \/ ChooseLevel \/ StartConversion
    \/ WorkerOpen \/ WorkerOpenFails \/ WorkerExtract \/ WorkerSave \/ WorkerSaveFails
    \/ WorkerFinish \/ WorkerRaise
    \/ SetStatus \/ UpdateProgress \/ ConversionComplete \/ ConversionError
SpecApp == InitApp /\ [][NextApp]_vars

\* lines 263-267: the thread started takes its steps, to its end or to the
\* step that raises
WorkerStep ==
    \/ WorkerOpen \/ WorkerOpenFails \/ WorkerExtract \/ WorkerSave \/ WorkerSaveFails
    \/ WorkerFinish \/ WorkerRaise

\* lines 358-363: root.mainloop() runs the callbacks posted with root.after
MainLoopStep == SetStatus \/ UpdateProgress \/ ConversionComplete \/ ConversionError

\* the application with a thread that is scheduled and a main loop that runs
SpecAppFair ==
    InitApp /\ [][NextApp]_vars /\ WF_vars(WorkerStep) /\ WF_vars(MainLoopStep)

----------------------------------------------------------------------------
(* Claims about a conversion run                                           *)

\* the positions of a thread's log that hold an event of one of the kinds
Events(w, kinds) == {p \in 1..Len(w.log) : w.log[p][1] \in kinds}

\* the events of the kinds carry the numbers 1, 2, 3, ... in this order
Numbered(w, kinds) ==
    \A p \in Events(w, kinds) :
        w.log[p][2] = Cardinality({q \in Events(w, kinds) : q <= p})

\* C15: in a run the extraction of every selected section is finished before
\* the first group is rendered or written; the sections are extracted one at
\* a time in selection order and the groups written one at a time in emission
\* order, all while the run's single document handle is open.
C15_ExtractThenWrite ==
    \A i \in 1..Len(workers) :
        LET w == workers[i]
            ex == Events(w, {"extract"})
            wr == Events(w, {"write", "fail"})
        IN  /\ wr # {} => /\ Cardinality(ex) = Len(w.selected)
                          /\ \A p \in ex, q \in wr : p < q
            /\ Numbered(w, {"extract"})
            /\ Numbered(w, {"write", "fail"})
            /\ Cardinality(Events(w, {"open"})) <= 1
            /\ \A p \in ex \cup wr :
                   /\ w.log[1][1] = "open"
                   /\ Events(w, {"close"}) \cap 1..p = {}
            /\ w.pc \in {"run", "raised"} => w.doc # None

\* a run over three sections in two groups has written both and closed
C15_Witness ==
    \E i \in 1..Len(workers) :
        /\ workers[i].log = << <<"open">>, <<"extract", 1>>, <<"extract", 2>>,
                               <<"extract", 3>>, <<"write", 1>>, <<"write", 2>>,
                               <<"close">> >>
        /\ Len(workers[i].merged[1].children) = 1

\* the callbacks of a kind posted for a run and not yet run by the main loop
Posted(run, kind) ==
    {p \in 1..Len(after_queue) : after_queue[p].kind = kind /\ after_queue[p].run = run}

\* the run of a thread has aborted at the failed save: no later group is
\* written, no completion is posted and the failure is
AbortedAtFailure(w) ==
    /\ \A p \in Events(w, {"write", "fail"}) : w.log[p][2] <= w.failed
    /\ Posted(w.run, "complete") = {}
    /\ w.pc = "done" => Cardinality(Posted(w.run, "error")) = 1
    /\ w.pc # "run"

\* C16 as stated: when writing the file of a group fails the run aborts: no
\* group after the failing one is rendered or written, the failure is not
\* skipped silently, and the files written before the failure are left as
\* they are.
C16_AbortKeepsFiles ==
    \A i \in 1..Len(workers) :
        LET w == workers[i] IN
        w.failed # 0 =>
            /\ AbortedAtFailure(w)
            /\ \A path \in DOMAIN w.files_before : files[path] = w.files_before[path]

\* C16 amended: the run aborts as stated and the files at every other path
\* are left as they are; the file at the failing group's own path, which an
\* earlier group with the same title has written, is left as it is or empty.
C16_AbortKeepsOtherFiles ==
    \A i \in 1..Len(workers) :
        LET w == workers[i]
            failing == FilePath(w.merged[w.failed])
        IN  w.failed # 0 =>
                /\ AbortedAtFailure(w)
                /\ DOMAIN files \subseteq DOMAIN w.files_before \cup {failing}
                /\ \A path \in DOMAIN w.files_before \ {failing} :
                       files[path] = w.files_before[path]
                /\ failing \in DOMAIN files =>
                       \/ /\ failing \in DOMAIN w.files_before
                          /\ files[failing] = w.files_before[failing]
                       \/ files[failing] = [run |-> w.run, group |-> w.failed, whole |-> FALSE]

\* the second of three groups has failed with its file emptied, the file of
\* the first group is there and the failure is posted
C16_Witness ==
    \E i \in 1..Len(workers) :
        /\ workers[i].failed = 2
        /\ Len(workers[i].merged) = 3
        /\ workers[i].pc = "done"
        /\ "a" \in DOMAIN files /\ files["a"].whole
        /\ "b" \in DOMAIN files /\ ~files["b"].whole

\* C19: at most one conversion thread is active at any time: between the
\* start of a run and the delivery of its completion or failure to the
\* interface no second run can be started.
C19_OneRunAtATime ==
    /\ Len(workers) <= 1
    /\ workers # <<>> => convert_btn = "disabled"

\* a second run is under way after the outcome of the first was delivered
C19_Witness ==
    /\ runs = 2
    /\ Len(workers) = 1
    /\ workers[1].run = 2
    /\ workers[1].pc = "run"
    /\ status_var \in {"complete", "failed"}

\* the PDF file whose sections a thread was given: the sections shown when
\* the run was started
SourceOf(w) ==
    CHOOSE pdf \in AppPdfs :
        \A i \in 1..Len(w.selected) :
            \E j \in 1..Len(AppSectionsOf(pdf)) : w.selected[i] = AppSectionsOf(pdf)[j]

\* C27: the document that the background worker opens for extraction is the
\* document from which the selected sections and their ranges were
\* computed, under every interleaving of the worker with interface events,
\* also when the user picks another PDF while the run is starting or in
\* progress.
C27_WorkerOpensSourceDocument ==
    \A i \in 1..Len(workers) :
        workers[i].doc # None => Val(workers[i].doc) = SourceOf(workers[i])

\* the outcomes delivered for a run
Delivered(run) == {p \in 1..Len(outcomes) : outcomes[p].run = run}

\* the runs started whose outcome is not delivered
Undelivered == {r \in 1..runs : Delivered(r) = {}}

\* the thread of a run, while the run is not over
ThreadOf(run) == CHOOSE w \in Range(workers) : w.run = run

\* a step that delivers an outcome delivers the one the thread has reached:
\* completion when every group was written and nothing raised, failure when
\* a step raised; it enables the convert button and sets the status to the
\* outcome
DeliveryAsReached ==
    Len(outcomes') > Len(outcomes) =>
        LET o == outcomes'[Len(outcomes')]
            w == ThreadOf(o.run)
            raised == Events(w, {"raise", "fail"}) # {}
            written == {w.log[p][2] : p \in Events(w, {"write"})}
        IN  /\ outcomes' = Append(outcomes, o)
            /\ \E v \in Range(workers) : v.run = o.run
            /\ w.pc = "done"
            /\ o.kind = "complete" <=> ~raised /\ written = 1..Len(w.merged)
            /\ o.kind = "error" <=> raised
            /\ convert_btn' = "normal"
            /\ status_var' = IF o.kind = "complete" THEN "complete" ELSE "failed"

----------------------------------------------------------------------------
(* Claims about the clip bands and the tables of a section                 *)

\* the sections read by the last run of the extraction loop, with what was
\* done for each of their pages
Extractions == IF extracted.op = "sections" THEN extracted.result ELSE <<>>

\* the height of page p (0-based) of the document
PageHeight(p) == pdf_file.pages[p + 1].height

\* the pages of the range of section s that the document has
RangeInDocument(s) == {p \in s.start_page..s.end_page : 0 <= p /\ p < pdf_file.page_count}

\* C22: for every page of a section's range extract_text clips to the band
\* whose top is max(start_y, HEADER_MARGIN) on the start page and
\* HEADER_MARGIN on every other page, and whose bottom is
\* min(end_y, page_height - FOOTER_MARGIN) on the end page and
\* page_height - FOOTER_MARGIN on every other page, also when end_y is
\* infinite; the band never reaches into the header or the footer margin and
\* no block that lies in a margin is taken.
C22_BandWithinMargins ==
    \A i \in 1..Len(Extractions) :
        LET s == Extractions[i].section
            pages == Extractions[i].pages
        IN  /\ extracted.was_open =>
                   {pages[k].page_num : k \in 1..Len(pages)} = RangeInDocument(s)
            /\ \A k \in 1..Len(pages) :
                   LET p == pages[k].page_num
                       bottom_of_page == PageHeight(p) - FOOTER_MARGIN
                   IN  /\ pages[k].clip.top =
                              IF p = s.start_page THEN Max2(s.start_y, HEADER_MARGIN)
                              ELSE HEADER_MARGIN
                       /\ pages[k].clip.bottom =
                              IF p = s.end_page THEN Min2(s.end_y, bottom_of_page)
                              ELSE bottom_of_page
                       /\ pages[k].clip.top >= HEADER_MARGIN
                       /\ pages[k].clip.bottom <= bottom_of_page
                       /\ \A b \in 1..Len(pages[k].kept) :
                              /\ pages[k].kept[b].bbox.y1 > HEADER_MARGIN
                              /\ pages[k].kept[b].bbox.y0 < bottom_of_page

\* a section that starts below the header margin of its first page, covers
\* a whole page and ends above the footer margin of a third page; another
\* section ends with the document (end_y infinite)
C22_Witness ==
    /\ extracted.op = "sections" /\ extracted.was_open
    /\ \E i \in 1..Len(Extractions) :
        LET s == Extractions[i].section
            pages == Extractions[i].pages
        IN  /\ Len(pages) = 3
            /\ s.start_y > HEADER_MARGIN
            /\ s.end_y < PageHeight(s.end_page) - FOOTER_MARGIN
            /\ pages[1].clip.top = s.start_y
            /\ pages[2].clip = [top |-> HEADER_MARGIN, bottom |-> PageHeight(pages[2].page_num) - FOOTER_MARGIN]
            /\ pages[3].clip.bottom = s.end_y
            /\ pages[2].kept # <<>> /\ pages[3].kept # <<>>
    /\ \E i \in 1..Len(Extractions) :
           /\ Extractions[i].section.end_y = Inf
           /\ Extractions[i].pages # <<>>

\* the text blocks of page p (0-based) that reach into the band
BlocksInBand(p, band) ==
    SelectSeq(pdf_file.pages[p + 1].blocks, LAMBDA b :
        b.type = 0 /\ Intersects(b.bbox, Rect(0, band.top, pdf_file.pages[p + 1].width, band.bottom)))

\* C23: for every section and every page of its range extract_tables and
\* extract_text (tables excluded) use the same vertical band; every table
\* that extract_tables collects is among the table regions that extract_text
\* excludes; no text block whose bounding box intersects a collected table
\* is part of the section's text; a block that intersects no excluded
\* region is never dropped.
C23_TablesExcludedFromText ==
    \A i \in 1..Len(Extractions) :
        \A k \in 1..Len(Extractions[i].pages) :
            LET pg == Extractions[i].pages[k] IN
            /\ pg.valid = pg.clip
            /\ Range(pg.collected) \subseteq Range(pg.excluded)
            /\ \A b \in Range(pg.kept) : \A t \in Range(pg.collected) :
                   ~Intersects(b.bbox, t.bbox)
            /\ \A b \in Range(BlocksInBand(pg.page_num, pg.clip)) :
                   (\A t \in Range(pg.excluded) : ~Intersects(b.bbox, t.bbox))
                       => b \in Range(pg.kept)

\* on one page a table is collected and the block inside it is left out of
\* the text while another block is taken; on another page a block is left
\* out for a table region that has no data and is not collected
C23_Witness ==
    /\ extracted.op = "sections" /\ extracted.was_open
    /\ \E i \in 1..Len(Extractions) :
        /\ Extractions[i].tables # <<>>
        /\ Extractions[i].text # <<>>
        /\ \E k \in 1..Len(Extractions[i].pages) :
            LET pg == Extractions[i].pages[k] IN
            /\ pg.collected # <<>> /\ pg.kept # <<>>
            /\ \E b \in Range(BlocksInBand(pg.page_num, pg.clip)) :
                   /\ b \notin Range(pg.kept)
                   /\ \E t \in Range(pg.collected) : Intersects(b.bbox, t.bbox)
        /\ \E k \in 1..Len(Extractions[i].pages) :
            LET pg == Extractions[i].pages[k] IN
            \E b \in Range(BlocksInBand(pg.page_num, pg.clip)) :
                /\ b \notin Range(pg.kept)
                /\ \A t \in Range(pg.collected) : ~Intersects(b.bbox, t.bbox)

\* the bookmarks of the document read are in non-decreasing (page, y) order
OutlineInOrder ==
    \A i, j \in 1..Len(pdf_file.toc) :
        i < j => \/ pdf_file.toc[i].page < pdf_file.toc[j].page
                 \/ /\ pdf_file.toc[i].page = pdf_file.toc[j].page
                    /\ y_pos(pdf_file.toc[i]) <= y_pos(pdf_file.toc[j])

Inverted(band) == band.top > band.bottom

\* C26 as stated: for every section built from an outline in document order
\* and every page of its range inside the document, the band of
\* extract_text and of extract_tables has its top at or above its bottom.
C26_BandNotInverted ==
    OutlineInOrder =>
        \A i \in 1..Len(Extractions) : \A k \in 1..Len(Extractions[i].pages) :
            /\ ~Inverted(Extractions[i].pages[k].clip)
            /\ ~Inverted(Extractions[i].pages[k].valid)

\* the page is lower than the two margins together, or the section starts in
\* the footer margin of this page, or it ends in the header margin of it
EmptiesBand(s, p) ==
    \/ PageHeight(p) < HEADER_MARGIN + FOOTER_MARGIN
    \/ p = s.start_page /\ s.start_y > PageHeight(p) - FOOTER_MARGIN
    \/ p = s.end_page /\ s.end_y < HEADER_MARGIN

\* C26 amended: for an outline in document order the band of a page is
\* inverted exactly when the page is lower than the two margins together,
\* the section starts in the footer margin of its start page or it ends in
\* the header margin of its end page (as before a bookmark without y
\* position); no block and no table is taken from a page with an inverted
\* band.
C26_BandInvertedOnlyInMargins ==
    OutlineInOrder =>
        \A i \in 1..Len(Extractions) : \A k \in 1..Len(Extractions[i].pages) :
            LET pg == Extractions[i].pages[k]
                s == Extractions[i].section
            IN  /\ Inverted(pg.clip) <=> EmptiesBand(s, pg.page_num)
                /\ Inverted(pg.valid) <=> EmptiesBand(s, pg.page_num)
                /\ Inverted(pg.clip) => pg.kept = <<>> /\ pg.collected = <<>>

\* a section of an ordered outline ends at the top of the next page, where
\* the next bookmark has no y position: the band of that page is inverted,
\* the band of the page before is not and gives text
C26_Witness ==
    /\ OutlineInOrder
    /\ extracted.op = "sections" /\ extracted.was_open
    /\ \E i \in 1..Len(Extractions) :
        LET pages == Extractions[i].pages
            s == Extractions[i].section
        IN  /\ Len(pages) = 2
            /\ s.end_y = 0
            /\ ~Inverted(pages[1].clip) /\ pages[1].kept # <<>>
            /\ Inverted(pages[2].clip) /\ pages[2].kept = <<>>
            /\ Extractions[i].text # <<>>

\* the tables collected for section i of the last run, each with its page
CollectedFor(i) ==
    UNION { {[page_num |-> Extractions[i].pages[k].page_num, bbox |-> t.bbox] :
                t \in Range(Extractions[i].pages[k].collected)} :
            k \in 1..Len(Extractions[i].pages) }

PositiveHeight(t) == t.bbox.y0 < t.bbox.y1

\* C28: for the flat sections built from an outline in non-decreasing
\* (page, y) order, no table of positive height is collected by
\* extract_section_tables for two different sections.
C28_NoTableCollectedTwice ==
    OutlineInOrder =>
        \A i, j \in 1..Len(Extractions) :
            i # j => \A t \in CollectedFor(i) \cap CollectedFor(j) : ~PositiveHeight(t)

\* two sections of an ordered outline share a page: a table of that page is
\* collected for the first of them only, and a table without height that
\* lies on the boundary of two sections is collected for both
C28_Witness ==
    /\ OutlineInOrder
    /\ extracted.op = "sections" /\ extracted.was_open
    /\ \E i, j \in 1..Len(Extractions) :
        /\ i # j
        /\ \E t \in CollectedFor(i) \ CollectedFor(j) :
               /\ PositiveHeight(t)
               /\ t.page_num \in RangeInDocument(Extractions[j].section)
        /\ Len(Extractions[i].tables) = Cardinality(CollectedFor(i))
    /\ \E i, j \in 1..Len(Extractions) :
        /\ i # j
        /\ \E t \in CollectedFor(i) \cap CollectedFor(j) : ~PositiveHeight(t)

====
